---------------------------- MODULE Spec2Model ----------------------------
(***************************************************************************)
(* Model of the product energy-level validator:                            *)
(*   - ResultComparator.normalize_energy_level / compare_energy_levels     *)
(*     (result_comparator.py), specification SpecCompare;                  *)
(*   - FastBatchProcessor.process_batch with its workers and               *)
(*     FastValidator.run_fast_validation with the relevance pass           *)
(*     (fast_batch_processor.py, main_fast.py), specification Spec;        *)
(*   - FastBatchProcessor._rate_limit_control with a clock                 *)
(*     (fast_batch_processor.py), specification SpecRate;                  *)
(*   - FastBatchProcessor._get_crawler_for_thread with close(), and        *)
(*     _update_stats, step by step under concurrent workers, SpecCrawler   *)
(*     and SpecStats;                                                      *)
(*   - process_batch under a KeyboardInterrupt, SpecCancel;                *)
(*   - AntiCrawlerHandler.extract_energy_levels with the filter of the     *)
(*     latest records (anti_crawler.py), SpecDedup;                        *)
(*   - ModelExtractor.extract_model (model_extractor.py), SpecExtract;     *)
(*   - ResultComparator.score_match and find_best_match with the decision  *)
(*     of the query (result_comparator.py), SpecScore;                     *)
(*   - RelevanceChecker.is_relevant_match (relevance_checker.py),          *)
(*     SpecRelevant, and FastValidator._perform_relevance_check using it   *)
(*     on a list of results (main_fast.py), SpecPass;                      *)
(*   - AntiCrawlerHandler.search_product with its retries                  *)
(*     (anti_crawler.py), SpecSearch;                                      *)
(*   - the threads of process_batch with request_lock and stats_lock,      *)
(*     SpecLive, and under fair scheduling, FairLive.                      *)
(*                                                                         *)
(* Texts are sequences of characters.  The module is ASCII, so a CJK       *)
(* character is written by its pinyin: "yi" "er" "san" "si" "wu" are the   *)
(* numerals 一 二 三 四 五, "ji" is 级, "wei" "zhi" are 未 知; a syllable   *)
(* that stands for two characters carries a digit for the second one:      *)
(* "wu2" is 无, "yi3" is 椅, "qi4" is 气 ("qi" is 器).                      *)
(***************************************************************************)
EXTENDS Integers, Sequences, FiniteSets, TLC

VARIABLES
    \* ---- SpecCompare: one call of compare_energy_levels
    excel_level,        \* argument excel_level
    search_level,       \* argument search_level
    normalized_excel,   \* local normalized_excel
    normalized_search,  \* local normalized_search
    verdict,            \* the returned string
    cmp_pc,             \* "input" before the call, "compared" after it
    \* ---- Spec: run_fast_validation, process_batch and its workers
    products_data,      \* the list handed to process_batch
    max_workers,        \* size of the thread pool
    st,                 \* per query: where its worker stands
    search_result,      \* per query: the local search_result while its worker runs
    fault,              \* per query: the failure that ended its processing, if any
    res,                \* per query: the result dict of _search_single_product
    stats,              \* self.stats, the counters
    collected,          \* the futures as_completed has yielded
    results,            \* the list `results`: references to the result dicts
    out_of_order,       \* whether the sort of line 228 had to move a result
    pc,                 \* where the main thread stands
    rel_i,              \* loop index of _perform_relevance_check
    rel_checked,        \* queries is_relevant_match has been called for
    \* ---- SpecRate: the worker threads at _rate_limit_control, with a clock
    now,                \* time.time(), in ticks
    request_lock,       \* self.request_lock: the thread holding it, or NoThread
    last_request_time,  \* self.last_request_time: per thread, NoTime if no entry
    tpc,                \* per thread: where it stands
    wake,               \* per thread: the time its time.sleep ends
    queued,             \* queries submitted to the pool and not taken yet
    \* ---- SpecCrawler: the worker threads at _get_crawler_for_thread
    has_crawlers,       \* hasattr(self, '_crawlers')
    crawlers,           \* self._crawlers: per thread a handle, NoHandle if no entry
    created,            \* number of AntiCrawlerHandler objects constructed
    cpc,                \* per thread: where it stands
    missing,            \* per thread: the value of `thread_id not in self._crawlers`
    used,               \* per thread: the handles it has searched with
    calls,              \* per thread: the queries it has taken
    close_ran,          \* close() of the processor has run
    closed,             \* the handles whose close() was called
    \* ---- SpecStats: the worker threads at _update_stats
    stats_lock,         \* self.stats_lock: the thread holding it, or NoThread
    self_stats,         \* self.stats, the counters
    spc,                \* per thread: where it stands
    field,              \* per thread: the counter its += is at
    loaded,             \* per thread: the value its += has read
    success_arg,            \* per thread: the argument success
    unfinished,         \* queries submitted and not taken yet
    submitted,          \* number of queries of the batch
    \* ---- SpecDedup: one call of extract_energy_levels
    raw_list,           \* search_result['list'], the records of the answer
    filtered_records,   \* the returned list
    dedup_pc,           \* "input" before the call, "extracted" after it
    \* ---- SpecExtract: one call of extract_model
    raw_model,          \* argument original_model
    canonical_model,    \* the returned text
    extract_pc,         \* "input" before the call, "returned" after it
    \* ---- SpecScore: score_match, find_best_match and the decision on a query
    query_model,        \* original_model of the query
    query_extracted,    \* extracted_model of the query
    query_level,        \* excel_energy_level of the query
    candidates,         \* energy_levels, the deduplicated candidates
    candidate_scores,   \* what score_match returned for each candidate
    ranking,            \* what find_best_match returned and printed
    query_result,       \* the dict `result` of the query
    score_pc,           \* "input", "scored", "ranked", "decided"
    \* ---- SpecRelevant: one call of is_relevant_match
    checked_pair,       \* the four arguments of the call
    is_relevant,        \* the returned boolean
    relevant_pc,        \* "input" before the call, "returned" after it
    \* ---- SpecPass: _perform_relevance_check on a list of decided results
    pass_decided,       \* the list `results` as process_batch returned it
    pass_results,       \* the list `results` during and after the pass
    pass_i,             \* loop index i of the pass
    pass_pc,            \* "returned", "checking", "done"
    \* ---- SpecSearch: AntiCrawlerHandler.search_product under a sequence of responses
    max_retries,        \* argument max_retries of search_product
    attempt,            \* loop variable attempt; max_retries once the loop is exhausted
    responses,          \* what the requests of this call met, in order
    search_return,      \* "pending", or what the call returned: "data" or "None"
    \* ---- SpecLive: the threads of process_batch and the two locks
    batch_size,         \* len(products_data)
    pool_size,          \* max_workers of the pool
    worker_pc,          \* where each worker thread is in _search_single_product
    main_pc,            \* where the main thread is in process_batch
    lock_holder,        \* the thread holding request_lock and the one holding stats_lock
    not_started,        \* submitted futures no worker has taken yet
    futures_done,       \* finished futures as_completed has not yielded yet
    futures_seen,       \* loop variable i of line 203
    has_entry,          \* threads with an entry in last_request_time
    live_processed      \* stats['total_processed']

cmpvars == <<excel_level, search_level, normalized_excel, normalized_search,
             verdict, cmp_pc>>

ratevars == <<now, request_lock, last_request_time, tpc, wake, queued>>

batchvars == <<products_data, max_workers, st, search_result, fault, res, stats,
               collected, results, out_of_order, pc, rel_i, rel_checked>>

crawlervars == <<has_crawlers, crawlers, created, cpc, missing, used, calls, close_ran,
    closed>>

statsvars == <<stats_lock, self_stats, spc, field, loaded, success_arg, unfinished,
               submitted>>

dedupvars == <<raw_list, filtered_records, dedup_pc>>

extractvars == <<raw_model, canonical_model, extract_pc>>

scorevars == <<query_model, query_extracted, query_level, candidates,
               candidate_scores,
               ranking, query_result, score_pc>>

relevantvars == <<checked_pair, is_relevant, relevant_pc>>

passvars == <<pass_decided, pass_results, pass_i, pass_pc>>

searchvars == <<max_retries, attempt, responses, search_return>>

livevars == <<batch_size, pool_size, worker_pc, main_pc, lock_holder, not_started, futures_done, futures_seen, has_entry, live_processed>>

\* the variables of the specifications of single operations
auxvars == <<crawlervars, statsvars, dedupvars, extractvars, scorevars,
            relevantvars,
            passvars,
            searchvars,
            livevars>>

\* what the actions of each of these specifications leave alone
mainvars == <<cmpvars, batchvars, ratevars>>
crawler_frame == <<mainvars, statsvars, dedupvars, extractvars, scorevars,
    relevantvars,
    passvars,
    searchvars,
    livevars>>
stats_frame == <<mainvars, crawlervars, dedupvars, extractvars, scorevars,
    relevantvars,
    passvars,
    searchvars,
    livevars>>
dedup_frame == <<mainvars, crawlervars, statsvars, extractvars, scorevars,
    relevantvars,
    passvars,
    searchvars,
    livevars>>
extract_frame == <<mainvars, crawlervars, statsvars, dedupvars, scorevars,
    relevantvars,
    passvars,
    searchvars,
    livevars>>
score_frame == <<mainvars, crawlervars, statsvars, dedupvars, extractvars,
    relevantvars,
    passvars,
    searchvars,
    livevars>>
relevant_frame == <<mainvars, crawlervars, statsvars, dedupvars, extractvars, scorevars,
    passvars,
    searchvars,
    livevars>>
pass_frame == <<mainvars, crawlervars, statsvars, dedupvars, extractvars, scorevars, relevantvars,
    searchvars,
    livevars>>
search_frame == <<mainvars, crawlervars, statsvars, dedupvars, extractvars, scorevars, relevantvars, passvars,
    livevars>>
live_frame == <<mainvars, crawlervars, statsvars, dedupvars, extractvars, scorevars, relevantvars, passvars, searchvars>>

-----------------------------------------------------------------------------
(* Texts                                                                   *)

\* Python's None, where a text is expected
PyNone == <<"None">>

\* the four strings compare_energy_levels returns
Correct == "Correct"                  \* '正确'
Incorrect == "Incorrect"              \* '错误'
NotFound == "NotFound"                \* '搜不到'
DeclaredMissing == "DeclaredMissing"  \* 'Excel缺失'

\* str.strip() removes these at both ends
IsSpace(c) == c = " "

\* the characters that re.sub(r'[^\w一-鿿]', '', level) removes:
\* everything that is neither a word character nor a CJK ideograph
IsWordOrCjk(c) == c \notin {" ", "-", "/", "."}

RECURSIVE lstrip(_)
lstrip(s) == IF s # <<>> /\ IsSpace(Head(s)) THEN lstrip(Tail(s)) ELSE s

RECURSIVE rstrip(_)
rstrip(s) ==
    IF s # <<>> /\ IsSpace(s[Len(s)]) THEN rstrip(SubSeq(s, 1, Len(s) - 1)) ELSE s

\* a strip that removes nothing
strip_nothing(s) == s

strip(s) == rstrip(lstrip(s))

-----------------------------------------------------------------------------
(* ResultComparator                                                        *)

YiJi == <<"yi", "ji">>    \* '一级'
ErJi == <<"er", "ji">>    \* '二级'
SanJi == <<"san", "ji">>  \* '三级'
SiJi == <<"si", "ji">>    \* '四级'
WuJi == <<"wu", "ji">>    \* '五级'

\* self.level_mapping: the keys that map to a grade, with their values
level_mapping_grades ==
    { <<<<"1">>, YiJi>>, <<<<"2">>, ErJi>>, <<<<"3">>, SanJi>>,
      <<<<"4">>, SiJi>>, <<<<"5">>, WuJi>>,
      <<YiJi, YiJi>>, <<ErJi, ErJi>>, <<SanJi, SanJi>>,
      <<SiJi, SiJi>>, <<WuJi, WuJi>>,
      <<<<"1", "ji">>, YiJi>>, <<<<"2", "ji">>, ErJi>>, <<<<"3", "ji">>, SanJi>>,
      <<<<"4", "ji">>, SiJi>>, <<<<"5", "ji">>, WuJi>>,
      <<<<"I">>, YiJi>>, <<<<"I", "I">>, ErJi>>, <<<<"I", "I", "I">>, SanJi>>,
      <<<<"I", "V">>, SiJi>>, <<<<"V">>, WuJi>> }

\* self.level_mapping: the keys that map to None ('未知', 'N/A', 'null', '')
level_mapping_none ==
    { <<"wei", "zhi">>, <<"N", "/", "A">>, <<"n", "u", "l", "l">>, <<>> }

\* the lookup of a table that lacks the Roman-numeral keys
level_mapping_get_no_roman(level) ==
    IF \E e \in level_mapping_grades : e[1] = level /\ level[1] \notin {"I", "V"}
    THEN (CHOOSE e \in level_mapping_grades : e[1] = level)[2]
    ELSE PyNone

\* self.level_mapping.get(level)
level_mapping_get(level) ==
    IF \E e \in level_mapping_grades : e[1] = level
    THEN (CHOOSE e \in level_mapping_grades : e[1] = level)[2]
    ELSE PyNone

\* normalize_energy_level(level)
normalize_energy_level(level) ==
    IF level = PyNone \/ level = <<>>
    THEN PyNone
    ELSE level_mapping_get(SelectSeq(strip(level), IsWordOrCjk))

\* Python's `not x` for a text or None
Falsy(x) == x = PyNone \/ x = <<>>

\* the decision of compare_energy_levels with the first two tests swapped
DecideExcelFirst(n_excel, n_search) ==
    IF Falsy(n_excel) THEN DeclaredMissing
    ELSE IF Falsy(n_search) THEN NotFound
    ELSE IF n_excel = n_search THEN Correct
    ELSE Incorrect

\* compare_energy_levels, from the two normalized levels on
Decide(n_excel, n_search) ==
    IF Falsy(n_search) THEN NotFound
    ELSE IF Falsy(n_excel) THEN DeclaredMissing
    ELSE IF n_excel = n_search THEN Correct
    ELSE Incorrect

compare_energy_levels(excel, search) ==
    Decide(normalize_energy_level(excel), normalize_energy_level(search))

-----------------------------------------------------------------------------
(* AntiCrawlerHandler: extraction and deduplication of the records          *)

\* code point of the characters announcement times are written with
CodePoint(c) ==
    CASE c = "-" -> 45 [] c = "0" -> 48 [] c = "1" -> 49 [] c = "2" -> 50
      [] c = "3" -> 51 [] c = "4" -> 52 [] c = "5" -> 53 [] OTHER -> 63

\* Python's a < b on str: lexicographic by code point
RECURSIVE TextLess(_, _)
TextLess(a, b) ==
    IF b = <<>> THEN FALSE
    ELSE IF a = <<>> THEN TRUE
    ELSE IF CodePoint(Head(a)) # CodePoint(Head(b))
         THEN CodePoint(Head(a)) < CodePoint(Head(b))
    ELSE TextLess(Tail(a), Tail(b))

\* _compare_time_strings(time1, time2)
_compare_time_strings(time1, time2) ==
    IF Falsy(time1) /\ Falsy(time2) THEN 0
    ELSE IF Falsy(time1) THEN -1
    ELSE IF Falsy(time2) THEN 1
    ELSE IF TextLess(time2, time1) THEN 1
    ELSE IF TextLess(time1, time2) THEN -1
    ELSE 0

\* a loop that replaces latest_record on an equal time too
RECURSIVE _get_latest_or_equal_from(_, _)
_get_latest_or_equal_from(latest_record, rest) ==
    IF rest = <<>> THEN latest_record
    ELSE IF _compare_time_strings(Head(rest).announcement_time,
                                  latest_record.announcement_time) >= 0
         THEN _get_latest_or_equal_from(Head(rest), Tail(rest))
    ELSE _get_latest_or_equal_from(latest_record, Tail(rest))

\* _get_latest_record(records): the loop over records[1:]
RECURSIVE _get_latest_from(_, _)
_get_latest_from(latest_record, rest) ==
    IF rest = <<>> THEN latest_record
    ELSE IF _compare_time_strings(Head(rest).announcement_time,
                                  latest_record.announcement_time) > 0
         THEN _get_latest_from(Head(rest), Tail(rest))
    ELSE _get_latest_from(latest_record, Tail(rest))

_get_latest_record(records) == _get_latest_from(Head(records), Tail(records))

\* the models of `records` in the order of their first occurrence:
\* the key order of the dict model_groups
RECURSIVE ModelOrder(_, _)
ModelOrder(records, seen) ==
    IF records = <<>> THEN <<>>
    ELSE IF Head(records).model \in seen THEN ModelOrder(Tail(records), seen)
    ELSE <<Head(records).model>>
             \o ModelOrder(Tail(records), seen \cup {Head(records).model})

\* _filter_latest_records(records)
_filter_latest_records(records) ==
    LET order == ModelOrder(records, {})
        group(m) == SelectSeq(records, LAMBDA r : r.model = m)
    IN  [i \in 1..Len(order) |->
            IF Len(group(order[i])) = 1 THEN group(order[i])[1]
            ELSE _get_latest_record(group(order[i]))]

\* level_map.get(str(energy_level), str(energy_level)) of extract_energy_levels
level_map_get(energy_level) ==
    CASE energy_level = <<"1">> -> YiJi
      [] energy_level = <<"2">> -> ErJi
      [] energy_level = <<"3">> -> SanJi
      [] energy_level = <<"4">> -> SiJi
      [] energy_level = <<"5">> -> WuJi
      [] OTHER -> energy_level

\* extract_energy_levels(search_result), search_result a dict with a 'list'
extract_energy_levels(sr) ==
    LET with_level == SelectSeq(sr.list, LAMBDA r : ~Falsy(r.nxLever))
        all_records == [i \in 1..Len(with_level) |->
                          [model |-> with_level[i].productModel,
                           energy_level |-> level_map_get(with_level[i].nxLever),
                           announcement_time |-> with_level[i].announcementTime]]
    IN  _filter_latest_records(all_records)

-----------------------------------------------------------------------------
(* ModelExtractor (model_extractor.py)                                      *)

\* the CJK ideographs the texts are written with: 格 力 美 的 空 调 米 家 版
\* and the numerals and 级 未 知 of the levels
CjkChars ==
    {"ge", "li", "mei", "di", "kong", "tiao", "mi", "jia", "ban",
     "yi", "er", "san", "si", "wu", "ji", "wei", "zhi",
     "wu2", "xian", "xi", "chen", "qi", "dian", "nao", "yi3", "xiao", "jing",
     "hua", "qi4", "bing", "xiang"}

\* is_chinese(char): the character is in [一-鿿]
is_chinese(char) == char \in CjkChars

\* str.lower(), character by character
UpperCase == <<"A", "B", "C", "D", "E", "F", "G", "H", "I", "J", "K", "L", "M",
               "N", "O", "P", "Q", "R", "S", "T", "U", "V", "W", "X", "Y", "Z">>
LowerCase == <<"a", "b", "c", "d", "e", "f", "g", "h", "i", "j", "k", "l", "m",
               "n", "o", "p", "q", "r", "s", "t", "u", "v", "w", "x", "y", "z">>
LowerChar(c) ==
    IF \E i \in 1..26 : UpperCase[i] = c
    THEN LowerCase[CHOOSE i \in 1..26 : UpperCase[i] = c]
    ELSE c
lower(s) == [i \in 1..Len(s) |-> LowerChar(s[i])]

\* s.startswith(prefix), s.endswith(suffix), s[n:]
startswith(s, prefix) ==
    Len(prefix) <= Len(s) /\ SubSeq(s, 1, Len(prefix)) = prefix
endswith(s, suffix) ==
    Len(suffix) <= Len(s) /\ SubSeq(s, Len(s) - Len(suffix) + 1, Len(s)) = suffix
DropFirst(s, n) == SubSeq(s, n + 1, Len(s))

GeLi == <<"ge", "li">>                              \* '格力'
MeiDi == <<"mei", "di">>                            \* '美的'
MeiDiKongTiao == <<"mei", "di", "kong", "tiao">>    \* '美的空调'

\* the endings of version_patterns, lines 116-128, matched with re.IGNORECASE:
\* 版, pro, plus, max, mini, lite
version_suffixes ==
    { <<"ban">>, <<"p", "r", "o">>, <<"p", "l", "u", "s">>, <<"m", "a", "x">>,
      <<"m", "i", "n", "i">>, <<"l", "i", "t", "e">> }

\* _has_version_suffix(model), for a text of one line
_has_version_suffix(model) ==
    \E suffix \in version_suffixes : endswith(lower(model), suffix)

\* the first brand of the list `brands` that model starts with, or <<>>
RECURSIVE FirstBrandPrefix(_, _)
FirstBrandPrefix(model, brands) ==
    IF brands = <<>> THEN <<>>
    ELSE IF startswith(model, Head(brands)) THEN Head(brands)
    ELSE FirstBrandPrefix(model, Tail(brands))

\* the lists common_brands of lines 64 and 154, without the brands the texts
\* cannot be written with (海尔, 奥克斯, 志高, 小米)
common_brands == << MeiDi, <<"T", "C", "L">> >>
common_brands_version == << MeiDi, <<"T", "C", "L">>, <<"mi", "jia">> >>

\* _extract_with_version_suffix(model)
_extract_with_version_suffix(model) ==
    IF startswith(model, GeLi) THEN strip(DropFirst(model, 2))
    ELSE IF startswith(model, MeiDiKongTiao) THEN strip(DropFirst(model, 4))
    ELSE IF FirstBrandPrefix(model, common_brands_version) # <<>>
         THEN strip(DropFirst(model,
                              Len(FirstBrandPrefix(model, common_brands_version))))
    ELSE model

\* _extract_generic(model): the part from the first to the last character
\* that is not Chinese
_extract_generic(model) ==
    LET others == { i \in 1..Len(model) : ~is_chinese(model[i]) }
    IN  IF others = {} THEN model
        ELSE LET start_pos == CHOOSE i \in others : \A j \in others : i <= j
                 end_pos == CHOOSE i \in others : \A j \in others : j <= i
                 extracted == SubSeq(model, start_pos, end_pos)
             IN  IF extracted # <<>> THEN strip(extracted) ELSE model

\* extract_model(original_model); None stands for every value that is no str
extract_model(original_model) ==
    IF Falsy(original_model) THEN <<>>
    ELSE LET model == strip(original_model)
         IN  IF model = <<>> THEN <<>>
             ELSE IF _has_version_suffix(model)
                  THEN _extract_with_version_suffix(model)
             ELSE IF startswith(model, GeLi) THEN strip(DropFirst(model, 2))
             ELSE IF startswith(model, MeiDiKongTiao)
                  THEN strip(DropFirst(model, 4))
             ELSE IF FirstBrandPrefix(model, common_brands) # <<>>
                  THEN strip(DropFirst(model,
                                       Len(FirstBrandPrefix(model, common_brands))))
             ELSE IF startswith(model, <<"R", "F">>) THEN model
             ELSE _extract_generic(model)

-----------------------------------------------------------------------------
(* ResultComparator: the scores of the candidates (result_comparator.py)    *)
(* The texts of this part are written with the characters of ScoreChars.    *)

ScoreChars ==
    {"ge", "li", "mei", "di", "K", "F", "R", "G", "W", "X", "T", "C", "L", "E",
     "-", "/", " ", "2", "3", "5", "6"}

Digits == {"0", "1", "2", "3", "4", "5", "6", "7", "8", "9"}
IsUpper(c) == \E i \in 1..26 : UpperCase[i] = c
IsLetter(c) == \E i \in 1..26 : UpperCase[i] = c \/ LowerCase[i] = c

\* Python's `needle in hay` on str
Contains(hay, needle) ==
    \E i \in 1..(Len(hay) + 1) :
        /\ i + Len(needle) - 1 <= Len(hay)
        /\ SubSeq(hay, i, i + Len(needle) - 1) = needle

\* a fraction <<numerator, denominator>>, the denominator positive
RatLess(x, y) == x[1] * y[2] < y[1] * x[2]
RatEq(x, y) == x[1] * y[2] = y[1] * x[2]
RatMax(x, y) == IF RatLess(x, y) THEN y ELSE x

\* the element of a set of one element; { F(x) : x \in {v} } computes v once
\* for all its uses in F
TheValue(S) == CHOOSE x \in S : TRUE

\* difflib's find_longest_match on a and b whole: the longest block common
\* to both, the one starting earliest in a and then earliest in b;
\* [i, j, k] with a[i..i+k-1] = b[j..j+k-1], k = 0 if there is none
find_longest_match(a, b) ==
    LET common(i, j, k) == /\ i + k - 1 <= Len(a)
                           /\ j + k - 1 <= Len(b)
                           /\ SubSeq(a, i, i + k - 1) = SubSeq(b, j, j + k - 1)
        sizes == { k \in 1..Len(a) :
                      \E i \in 1..Len(a), j \in 1..Len(b) : common(i, j, k) }
    IN  IF sizes = {} THEN [i |-> 1, j |-> 1, k |-> 0]
        ELSE LET k == CHOOSE n \in sizes : \A m \in sizes : m <= n
                 starts == { i \in 1..Len(a) :
                                \E j \in 1..Len(b) : common(i, j, k) }
                 i == CHOOSE n \in starts : \A m \in starts : n <= m
                 places == { j \in 1..Len(b) : common(i, j, k) }
                 j == CHOOSE n \in places : \A m \in places : n <= m
             IN  [i |-> i, j |-> j, k |-> k]

\* the sum of the sizes of difflib's get_matching_blocks: the longest block,
\* then the same to its left and to its right
RECURSIVE MatchingSize(_, _)
MatchingSize(a, b) ==
    IF a = <<>> \/ b = <<>> THEN 0
    ELSE LET around(m) ==
                 IF m.k = 0 THEN 0
                 ELSE TheValue({ m.k + MatchingSize(side[1], side[2])
                                     + MatchingSize(side[3], side[4]) :
                                 side \in {<< SubSeq(a, 1, m.i - 1),
                                              SubSeq(b, 1, m.j - 1),
                                              SubSeq(a, m.i + m.k, Len(a)),
                                              SubSeq(b, m.j + m.k, Len(b)) >>} })
         IN  TheValue({ around(m) : m \in {find_longest_match(a, b)} })

\* calculate_similarity_score(model1, model2): SequenceMatcher(...).ratio(),
\* 2 * matches / (len(a) + len(b)), as a fraction
calculate_similarity_score(model1, model2) ==
    IF Falsy(model1) \/ Falsy(model2) THEN <<0, 1>>
    ELSE TheValue({ << 2 * MatchingSize(low[1], low[2]), Len(model1) + Len(model2) >> :
                    low \in {<< lower(model1) \o <<>>, lower(model2) \o <<>> >>} })

TCL == <<"T", "C", "L">>
LG == <<"L", "G">>
GREE == <<"G", "R", "E", "E">>

\* priority_brands, lines 101-115, in their order, without the brands that
\* cannot be written with ScoreChars
priority_brands == << GeLi, MeiDi, TCL, LG >>

\* the first brand of priority_brands found in the text, lines 122-125
RECURSIVE FirstBrandIn(_, _)
FirstBrandIn(model_clean, brands) ==
    IF brands = <<>> THEN <<>>
    ELSE IF \/ Contains(model_clean, Head(brands))
            \/ Contains(lower(model_clean), lower(Head(brands)))
         THEN Head(brands)
    ELSE FirstBrandIn(model_clean, Tail(brands))

\* the longest run at the start of the text of characters i with ok[i]
LeadingRun(text, ok) ==
    LET runs == { n \in 0..Len(text) : \A i \in 1..n : ok[i] }
    IN  SubSeq(text, 1, CHOOSE n \in runs : \A m \in runs : m <= n)

\* the prefixes line 156 does not take for a brand
model_prefixes ==
    { <<"K", "F", "R">>, <<"K", "F">>, <<"R", "F">>, <<"G", "R">>,
      <<"B", "C", "D">>, <<"X", "Q", "G">> }

\* extract_brand_from_model(model); the company name patterns of lines
\* 129-143 need characters that are not in ScoreChars and match nothing here
extract_brand_from_model(model) ==
    IF Falsy(model) THEN <<>>
    ELSE LET model_clean == strip(model)
             chinese_prefix ==
                 LeadingRun(model_clean,
                            [i \in 1..Len(model_clean) |-> is_chinese(model_clean[i])])
             english_prefix ==
                 LeadingRun(model_clean,
                            [i \in 1..Len(model_clean) |-> IsLetter(model_clean[i])])
         IN  IF FirstBrandIn(model_clean, priority_brands) # <<>>
             THEN FirstBrandIn(model_clean, priority_brands)
             ELSE IF Len(chinese_prefix) >= 2 /\ Len(chinese_prefix) <= 4
                  THEN chinese_prefix
             ELSE IF /\ Len(english_prefix) >= 2
                     /\ IsUpper(english_prefix[1])
                     /\ english_prefix \notin model_prefixes
                  THEN english_prefix
             ELSE <<>>

\* brand_aliases, lines 174-196, lower-cased, main brand included, without
\* the names that cannot be written with ScoreChars
brand_families == { {GeLi, lower(GREE)}, {lower(TCL)} }

\* brands_similar(brand1, brand2)
brands_similar(brand1, brand2) ==
    IF Falsy(brand1) \/ Falsy(brand2) THEN FALSE
    ELSE LET brand1_lower == lower(brand1)
             brand2_lower == lower(brand2)
             similarity == calculate_similarity_score(brand1, brand2)
         IN  \/ brand1_lower = brand2_lower
             \/ \E family \in brand_families :
                    brand1_lower \in family /\ brand2_lower \in family
             \/ Contains(brand2_lower, brand1_lower)
             \/ Contains(brand1_lower, brand2_lower)
             \/ similarity[1] * 10 > 8 * similarity[2]

\* the longest run of digits of `text` from position i on
RECURSIVE DigitsFrom(_, _)
DigitsFrom(text, i) ==
    IF i <= Len(text) /\ text[i] \in Digits
    THEN <<text[i]>> \o DigitsFrom(text, i + 1)
    ELSE <<>>

\* re.search of text for head, then '-' if dash, then (\d+), then tail, head
\* being one of `heads`: the group of the leftmost match, <<>> if none
SearchDigits(text, heads, tail) ==
    LET low == lower(text)
        at(i, head) ==
            LET d == DigitsFrom(low, i + Len(head))
            IN  /\ i + Len(head) - 1 <= Len(low)
                /\ SubSeq(low, i, i + Len(head) - 1) = head
                /\ d # <<>>
                /\ startswith(DropFirst(low, i + Len(head) + Len(d) - 1), tail)
        hits == { i \in 1..Len(low) : \E head \in heads : at(i, head) }
    IN  IF hits = {} THEN <<>>
        ELSE LET i == CHOOSE n \in hits : \A m \in hits : n <= m
                 \* KFR?- takes the R when it can
                 head == CHOOSE h \in heads :
                             at(i, h) /\ \A g \in heads : at(i, g) => Len(g) <= Len(h)
             IN  DigitsFrom(low, i + Len(head))

\* extract_power_spec(model): the patterns KFR?-(\d+)GW, (\d+)GW, KFR?-(\d+)
\* with re.IGNORECASE, the first that matches
extract_power_spec(model) ==
    LET kf == { <<"k", "f", "r", "-">>, <<"k", "f", "-">> }
        gw == <<"g", "w">>
    IN  IF SearchDigits(model, kf, gw) # <<>> THEN SearchDigits(model, kf, gw)
        ELSE IF SearchDigits(model, {<<>>}, gw) # <<>>
             THEN SearchDigits(model, {<<>>}, gw)
        ELSE SearchDigits(model, kf, <<>>)

\* the bonus of lines 325-350 for the brands
BrandBonus(original_model, candidate) ==
    LET original_brand == extract_brand_from_model(original_model)
        candidate_brand_from_producer == extract_brand_from_model(candidate.producer)
        candidate_brand_from_model == extract_brand_from_model(candidate.model)
        candidate_brand == IF candidate_brand_from_producer # <<>>
                           THEN candidate_brand_from_producer
                           ELSE candidate_brand_from_model
    IN  IF original_brand # <<>> /\ candidate_brand # <<>>
        THEN IF original_brand = GeLi /\ brands_similar(original_brand, candidate_brand)
             THEN 20
             ELSE IF /\ original_brand \in {MeiDi, TCL}
                     /\ brands_similar(original_brand, candidate_brand)
                  THEN 18
             ELSE IF original_brand = candidate_brand THEN 15
             ELSE IF brands_similar(original_brand, candidate_brand) THEN 12
             ELSE 0
        ELSE IF original_brand = <<>> /\ candidate_brand # <<>> THEN 3
        ELSE 0

\* the bonuses of lines 319-323 and 352-368
OtherBonuses(original_model, extracted_model, candidate) ==
    LET candidate_model == candidate.model
        KFR == <<"K", "F", "R">>
        original_power == extract_power_spec(original_model)
        candidate_power == extract_power_spec(candidate_model)
    IN  (IF \/ Contains(original_model, candidate_model)
            \/ Contains(candidate_model, original_model) THEN 10 ELSE 0)
      + (IF \/ Contains(extracted_model, candidate_model)
            \/ Contains(candidate_model, extracted_model) THEN 8 ELSE 0)
      + (IF Contains(original_model, KFR) /\ Contains(candidate_model, KFR)
         THEN 8 ELSE 0)
      + (IF /\ original_power # <<>>
            /\ candidate_power # <<>>
            /\ original_power = candidate_power THEN 12 ELSE 0)
      + (IF ~Falsy(candidate.energy_level) THEN 2 ELSE 0)
      + (IF ~Falsy(candidate.producer) THEN 2 ELSE 0)
      + (IF ~Falsy(candidate.record_number) THEN 1 ELSE 0)

\* a return of the score as it is
Uncapped(score) == score

\* line 370: min(score, 100.0)
CapAt100(score) == IF score[1] > 100 * score[2] THEN <<100, 1>> ELSE score

\* lines 316-370 of score_match: the similarity, the bonuses and the cap
ComputedScore(original_model, extracted_model, candidate) ==
    LET bonus == BrandBonus(original_model, candidate)
                     + OtherBonuses(original_model, extracted_model, candidate)
        total(original_sim, extracted_sim) ==
            TheValue({ CapAt100(<<90 * similarity[1] + bonus * similarity[2],
                                  similarity[2]>>) :
                       similarity \in {RatMax(original_sim, extracted_sim)} })
    IN  TheValue({ total(sims[1], sims[2]) :
                   sims \in {<< calculate_similarity_score(original_model,
                                                           candidate.model),
                                calculate_similarity_score(extracted_model,
                                                           candidate.model) >>} })

\* score_match without the two returns of lines 311-314
ScoreNoShortcut(original_model, extracted_model, candidate) ==
    ComputedScore(original_model, extracted_model, candidate)

\* score_match(original_model, extracted_model, candidate), as a fraction
score_match(original_model, extracted_model, candidate) ==
    IF candidate.model = original_model THEN <<100, 1>>
    ELSE IF candidate.model = extracted_model THEN <<95, 1>>
    ELSE ComputedScore(original_model, extracted_model, candidate)

\* a place before the entries of equal score
PlaceBeforeEqual(sorted, entry) ==
    Cardinality({ i \in 1..Len(sorted) : RatLess(entry.score, sorted[i].score) })

\* list.sort(key=score, reverse=True) is stable: an entry goes behind the
\* entries of greater or equal score that came before it
PlaceOf(sorted, entry) ==
    Cardinality({ i \in 1..Len(sorted) : ~RatLess(sorted[i].score, entry.score) })

\* scored_candidates after the sort of line 402
RECURSIVE SortByScore(_)
SortByScore(scored) ==
    IF scored = <<>> THEN <<>>
    ELSE LET before == SortByScore(SubSeq(scored, 1, Len(scored) - 1))
             entry == scored[Len(scored)]
             n == PlaceOf(before, entry)
         IN  TheValue({ SubSeq(part[1], 1, part[2]) \o <<entry>>
                            \o SubSeq(part[1], part[2] + 1, Len(part[1])) :
                        part \in {<<before, n>>} })

\* no score: find_best_match computes none for a list of one candidate
NoScore == <<-1, 1>>

\* find_best_match of a non-empty list energy_levels: the candidate returned,
\* its score, and whether the warning of line 408 is printed
find_best_match(energy_levels, extracted_model, original_model) ==
    IF Len(energy_levels) = 1
    THEN [best_match |-> energy_levels[1], best_score |-> NoScore, warned |-> FALSE]
    ELSE LET scores == [i \in 1..Len(energy_levels) |->
                           [score |-> score_match(original_model, extracted_model,
                                                  energy_levels[i]),
                            candidate |-> energy_levels[i]]]
             best(scored_candidates) ==
                 [best_match |-> scored_candidates[1].candidate,
                  best_score |-> scored_candidates[1].score,
                  warned |-> RatLess(scored_candidates[1].score, <<30, 1>>)]
         IN  TheValue({ best(SortByScore(scored)) : scored \in {scores \o <<>>} })

-----------------------------------------------------------------------------
(* SpecCompare: compare_energy_levels applied to a pair of level texts      *)

MaxLevelLen == 2

\* the characters the bounded level texts are built from
LevelChars == {"1", "2", "yi", "ji", "I", "V", " "}

RECURSIVE TextsUpTo(_, _)
TextsUpTo(chars, n) ==
    IF n = 0 THEN { <<>> }
    ELSE LET shorter == TextsUpTo(chars, n - 1)
         IN  shorter \cup { Append(s, c) : s \in { t \in shorter : Len(t) = n - 1 },
                                            c \in chars }

\* level texts a cell of the sheet or a record of the registry can hold
LevelTexts ==
    TextsUpTo(LevelChars, MaxLevelLen)
        \cup { e[1] : e \in level_mapping_grades }
        \cup level_mapping_none
        \cup { PyNone, <<"1", ".">>, <<"1", "-", "ji">>, <<"i">>, <<"6">>,
               <<"x">>, <<" ", "san", "ji", " ">> }

CompareInit ==
    /\ excel_level \in LevelTexts
    /\ search_level \in LevelTexts
    /\ normalized_excel = PyNone
    /\ normalized_search = PyNone
    /\ verdict = ""
    /\ cmp_pc = "input"

\* the state of SpecCompare's variables under the other specifications
CompareIdle ==
    /\ excel_level = <<>>
    /\ search_level = <<>>
    /\ normalized_excel = PyNone
    /\ normalized_search = PyNone
    /\ verdict = ""
    /\ cmp_pc = "idle"

\* one call compare_energy_levels(excel_level, search_level)
Compare ==
    /\ cmp_pc = "input"
    /\ normalized_excel' = normalize_energy_level(excel_level)
    /\ normalized_search' = normalize_energy_level(search_level)
    /\ verdict' = Decide(normalized_excel', normalized_search')
    /\ cmp_pc' = "compared"
    /\ UNCHANGED <<excel_level, search_level>>
    /\ UNCHANGED <<batchvars, ratevars, auxvars>>

\* no thread holds the lock; no entry in last_request_time
NoThread == 0
NoTime == -1

\* the state of SpecRate's variables under the other specifications
RateIdle ==
    /\ now = 0
    /\ request_lock = NoThread
    /\ last_request_time = <<>>
    /\ tpc = <<>>
    /\ wake = <<>>
    /\ queued = 0

\* no entry in self._crawlers
NoHandle == 0

\* the state of SpecCrawler's variables under the other specifications
CrawlerIdle ==
    /\ has_crawlers = FALSE
    /\ crawlers = <<>>
    /\ created = 0
    /\ cpc = <<>>
    /\ missing = <<>>
    /\ used = <<>>
    /\ calls = <<>>
    /\ close_ran = FALSE
    /\ closed = {}

\* the state of SpecStats's variables under the other specifications
StatsIdle ==
    /\ stats_lock = NoThread
    /\ self_stats = <<>>
    /\ spc = <<>>
    /\ field = <<>>
    /\ loaded = <<>>
    /\ success_arg = <<>>
    /\ unfinished = 0
    /\ submitted = 0

\* the state of SpecDedup's variables under the other specifications
DedupIdle ==
    /\ raw_list = <<>>
    /\ filtered_records = <<>>
    /\ dedup_pc = "idle"

\* the state of SpecExtract's variables under the other specifications
ExtractIdle ==
    /\ raw_model = <<>>
    /\ canonical_model = <<>>
    /\ extract_pc = "idle"

\* the state of SpecScore's variables under the other specifications
ScoreIdle ==
    /\ query_model = <<>>
    /\ query_extracted = <<>>
    /\ query_level = <<>>
    /\ candidates = <<>>
    /\ candidate_scores = <<>>
    /\ ranking = <<>>
    /\ query_result = <<>>
    /\ score_pc = "idle"

\* the state of SpecRelevant's variables under the other specifications
RelevantIdle ==
    /\ checked_pair = <<>>
    /\ is_relevant = FALSE
    /\ relevant_pc = "idle"

\* the state of SpecPass's variables under the other specifications
PassIdle ==
    /\ pass_decided = <<>>
    /\ pass_results = <<>>
    /\ pass_i = 0
    /\ pass_pc = "idle"

\* the state of SpecSearch's variables under the other specifications
SearchIdle ==
    /\ max_retries = 0
    /\ attempt = 0
    /\ responses = <<>>
    /\ search_return = "idle"

\* the state of SpecLive's variables under the other specifications
LiveIdle ==
    /\ batch_size = 0
    /\ pool_size = 0
    /\ worker_pc = <<>>
    /\ main_pc = "idle"
    /\ lock_holder = <<>>
    /\ not_started = 0
    /\ futures_done = 0
    /\ futures_seen = 0
    /\ has_entry = {}
    /\ live_processed = 0

AuxIdle == CrawlerIdle /\ StatsIdle /\ DedupIdle /\ ExtractIdle /\ ScoreIdle
    /\ RelevantIdle
    /\ PassIdle
    /\ SearchIdle
    /\ LiveIdle

-----------------------------------------------------------------------------
(* Spec: FastValidator.run_fast_validation, FastBatchProcessor.process_batch *)
(* and the workers running _search_single_product                           *)

MaxRows == 3
MaxWorkers == 2

\* the data rows of the sheet: DataFrame index 0 .. MaxRows-1
Rows == 0 .. (MaxRows - 1)

\* column '产品型号' of row r, when it is not blank
SheetModel(r) ==
    CASE r % 3 = 0 -> "GeLi KFR-35GW"
      [] r % 3 = 1 -> "MiJia WuXian XiChenQi 2"
      [] OTHER     -> "MeiDi KongTiao KFR-26GW"

\* column '能耗级别' of row r, '' when the cell is blank
SheetLevel(r) ==
    CASE r % 3 = 0 -> YiJi
      [] r % 3 = 1 -> <<>>
      [] OTHER     -> <<"2", "ji">>

\* the ascending sequence of the members of a set of row numbers
RECURSIVE Ascending(_)
Ascending(S) ==
    IF S = {} THEN <<>>
    ELSE LET m == CHOOSE x \in S : \A y \in S : x <= y
         IN  <<m>> \o Ascending(S \ {m})

\* ExcelHandler.get_product_data(): one tuple for each row that has a model,
\* in the order of the DataFrame index
get_product_data(present) ==
    LET rows == Ascending(present)
    IN  [i \in 1..Len(rows) |->
            [row_index |-> rows[i],
             original_model |-> SheetModel(rows[i]),
             excel_energy_level |-> SheetLevel(rows[i])]]

\* products_data[:max_count] when max_count is truthy (0 stands for None)
TakeMaxCount(data, max_count) ==
    IF max_count = 0 THEN data
    ELSE SubSeq(data, 1, IF max_count < Len(data) THEN max_count ELSE Len(data))

Queries == 1 .. Len(products_data)

\* a record of the registry's answer
Raw(model, level, time) ==
    [productModel |-> model, nxLever |-> level, announcementTime |-> time]

\* what crawler.search_product(...) can give back: None after its retries,
\* or the 'data' dict of the answer with its 'list' of records;
\* "raise" is an exception leaving lines 110-119
SearchOutcomes ==
    { [kind |-> "raise", list |-> <<>>],
      [kind |-> "none", list |-> <<>>],
      [kind |-> "data", list |-> <<>>],
      [kind |-> "data", list |-> <<Raw("KFR-35GW/FNhAa-B1", <<>>, <<"2", "1">>)>>],
      [kind |-> "data", list |-> <<Raw("KFR-35GW/FNhAa-B1", <<"1">>, <<"2", "1">>)>>],
      [kind |-> "data", list |-> <<Raw("DianNaoYi 2017", <<"wei", "zhi">>, <<>>)>>],
      [kind |-> "data", list |-> <<Raw("KFR-35GW/FNhAa-B1", <<"1">>, <<"2", "1">>),
                                   Raw("DianNaoYi 2017", <<"1">>, <<"2", "2">>),
                                   Raw("KFR-35GW/FNhAa-B1", <<"2">>, <<"2", "3">>)>>] }

NoSearch == [kind |-> "not called", list |-> <<>>]

\* the value of a key the result dict does not hold
Absent == <<"absent">>

\* the dict `result` of lines 98-106 (thread_id left out)
InitialResult(model_data) ==
    [row_index |-> model_data.row_index,
     original_model |-> model_data.original_model,
     excel_energy_level |-> model_data.excel_energy_level,
     search_success |-> FALSE,
     validation_result |-> NotFound,
     details |-> "",
     search_energy_level |-> Absent,
     matched_model |-> "absent"]

\* before line 98 there is no dict
NoResult ==
    [row_index |-> -1, original_model |-> "", excel_energy_level |-> <<>>,
     search_success |-> FALSE, validation_result |-> "", details |-> "",
     search_energy_level |-> Absent, matched_model |-> "absent"]

\* an exception handler that leaves the detail as it was
HandleExceptionSilently(result) == result

\* the except branch, line 172: details = "处理出错: ..."
HandleException(result) == [result EXCEPT !.details = "error: processing failed"]

\* the counters after _update_stats(success)
_update_stats(s, success) ==
    [total_processed |-> s.total_processed + 1,
     successful |-> s.successful + (IF success THEN 1 ELSE 0),
     failed |-> s.failed + (IF success THEN 0 ELSE 1)]

\* the detail text of lines 153-160, by verdict
DetailsFor(validation_result) ==
    CASE validation_result = Correct -> "match: model - level"
      [] validation_result = Incorrect -> "mismatch: Excel(level) vs search(level)"
      [] validation_result = DeclaredMissing -> "Excel missing, site shows: level - model"
      [] OTHER -> "undetermined: model"

\* lines 140-160: the result once best_match is chosen
DecidedResult(result, best_match) ==
    LET validation_result ==
            compare_energy_levels(result.excel_energy_level, best_match.energy_level)
    IN  [result EXCEPT !.validation_result = validation_result,
                       !.search_energy_level = best_match.energy_level,
                       !.matched_model = best_match.model,
                       !.details = DetailsFor(validation_result)]

\* the candidates find_best_match can return: the only one of a list of one;
\* of a longer list the one of the highest score_match, which depends on the
\* texts of the models: here any of them
BestMatches(energy_levels) ==
    IF Len(energy_levels) = 1 THEN {energy_levels[1]}
    ELSE {energy_levels[i] : i \in 1..Len(energy_levels)}

\* queries a worker is busy with
Running == {k \in Queries : st[k] \in {"searching", "scoring"}}

Init ==
    /\ CompareIdle
    /\ RateIdle
    /\ AuxIdle
    /\ \E present \in SUBSET Rows, max_count \in 0..MaxRows :
           products_data = TakeMaxCount(get_product_data(present), max_count)
    /\ max_workers \in 1..MaxWorkers
    /\ st = [k \in Queries |-> "pending"]
    /\ search_result = [k \in Queries |-> NoSearch]
    /\ fault = [k \in Queries |-> "none"]
    /\ res = [k \in Queries |-> NoResult]
    /\ stats = [total_processed |-> 0, successful |-> 0, failed |-> 0]
    /\ collected = {}
    /\ results = <<>>
    /\ out_of_order = FALSE
    /\ pc = "loaded"
    /\ rel_i = 0
    /\ rel_checked = {}

\* the state of Spec's variables under the other specifications
BatchIdle ==
    /\ products_data = <<>>
    /\ max_workers = 1
    /\ st = <<>>
    /\ search_result = <<>>
    /\ fault = <<>>
    /\ res = <<>>
    /\ stats = [total_processed |-> 0, successful |-> 0, failed |-> 0]
    /\ collected = {}
    /\ results = <<>>
    /\ out_of_order = FALSE
    /\ pc = "idle"
    /\ rel_i = 0
    /\ rel_checked = {}

\* process_batch lines 188-200: every query is submitted to the pool
SubmitAll ==
    /\ pc = "loaded"
    /\ pc' = "collect"
    /\ UNCHANGED <<products_data, max_workers, st, search_result, fault, res, stats,
                   collected, results, out_of_order, rel_i, rel_checked>>
    /\ UNCHANGED <<cmpvars, ratevars, auxvars>>

\* a free worker takes the oldest queued query and runs lines 95-116; the
\* workers go on taking queued queries while the pool shuts down, since
\* leaving the with block of line 193 is shutdown(wait=True), which cancels
\* no queued future
StartQuery(k) ==
    /\ pc \in {"collect", "interrupted"}
    /\ st[k] = "pending"
    /\ \A j \in Queries : j < k => st[j] # "pending"
    /\ Cardinality(Running) < max_workers
    /\ st' = [st EXCEPT ![k] = "searching"]
    /\ res' = [res EXCEPT ![k] = InitialResult(products_data[k])]
    /\ UNCHANGED <<products_data, max_workers, search_result, fault, stats,
                   collected, results, out_of_order, pc, rel_i, rel_checked>>
    /\ UNCHANGED <<cmpvars, ratevars, auxvars>>

\* lines 118-127 and 165-173: search_product returns or an exception is raised
SearchProduct(k, out) ==
    /\ st[k] = "searching"
    /\ IF out.kind = "raise"
       THEN /\ res' = [res EXCEPT ![k] = HandleException(res[k])]
            /\ stats' = _update_stats(stats, FALSE)
            /\ st' = [st EXCEPT ![k] = "done"]
            /\ fault' = [fault EXCEPT ![k] = "search raised"]
            /\ search_result' = search_result
       ELSE IF out.kind = "data" /\ Len(out.list) > 0
       THEN /\ res' = [res EXCEPT ![k].search_success = TRUE]
            /\ stats' = stats
            /\ st' = [st EXCEPT ![k] = "scoring"]
            /\ fault' = fault
            /\ search_result' = [search_result EXCEPT ![k] = out]
       ELSE /\ res' = [res EXCEPT ![k].details = "search: no result"]
            /\ stats' = _update_stats(stats, res[k].search_success)
            /\ st' = [st EXCEPT ![k] = "done"]
            /\ fault' = [fault EXCEPT ![k] = "search failed"]
            /\ search_result' = search_result
    /\ UNCHANGED <<products_data, max_workers, collected, results, out_of_order,
                   pc, rel_i, rel_checked>>
    /\ UNCHANGED <<cmpvars, ratevars, auxvars>>

\* lines 127-173: deduplication, find_best_match, compare_energy_levels, the
\* detail text and the counters; `raises` is an exception in one of them
ScoreAndDecide(k, raises) ==
    /\ st[k] = "scoring"
    /\ LET energy_levels == extract_energy_levels(search_result[k])
       IN  IF raises
           THEN /\ res' = [res EXCEPT ![k] = HandleException(res[k])]
                /\ stats' = _update_stats(stats, FALSE)
                /\ fault' = [fault EXCEPT ![k] = "stage raised"]
           ELSE IF energy_levels = <<>>
           THEN /\ res' = [res EXCEPT ![k].details = "no energy level in the records"]
                /\ stats' = _update_stats(stats, res[k].search_success)
                /\ fault' = fault
           ELSE /\ \E best_match \in BestMatches(energy_levels) :
                       res' = [res EXCEPT ![k] = DecidedResult(res[k], best_match)]
                /\ stats' = _update_stats(stats, res[k].search_success)
                /\ fault' = fault
    /\ st' = [st EXCEPT ![k] = "done"]
    /\ search_result' = [search_result EXCEPT ![k] = NoSearch]
    /\ UNCHANGED <<products_data, max_workers, collected, results, out_of_order,
                   pc, rel_i, rel_checked>>
    /\ UNCHANGED <<cmpvars, ratevars, auxvars>>

\* a return without the sort
Unsorted(refs) == refs

\* the result dicts in `refs`, ordered by row_index as list.sort does: stable
RECURSIVE SortByRowIndex(_)
SortByRowIndex(refs) ==
    IF refs = <<>> THEN <<>>
    ELSE LET i == CHOOSE i \in 1..Len(refs) :
                      /\ \A j \in 1..Len(refs) :
                             res[refs[i]].row_index <= res[refs[j]].row_index
                      /\ \A j \in 1..(i - 1) :
                             res[refs[j]].row_index # res[refs[i]].row_index
         IN  <<refs[i]>>
                 \o SortByRowIndex(SubSeq(refs, 1, i - 1) \o SubSeq(refs, i + 1, Len(refs)))

\* a collection that keeps only the results of successful searches
AppendResultIfSuccess(list, k) ==
    IF res[k].search_success THEN Append(list, k) ELSE list

\* results.append(result), line 206
AppendResult(list, k) == Append(list, k)

\* lines 203-210: as_completed yields a finished future, its result is appended
CollectResult(k) ==
    /\ pc = "collect"
    /\ st[k] = "done"
    /\ k \notin collected
    /\ collected' = collected \cup {k}
    /\ results' = AppendResult(results, k)
    /\ UNCHANGED <<products_data, max_workers, st, search_result, fault, res, stats,
                   out_of_order, pc, rel_i, rel_checked>>
    /\ UNCHANGED <<cmpvars, ratevars, auxvars>>

\* a loop over the futures that can end before all of them are finished
AsCompletedCutShort == TRUE

\* the loop of line 203 ends and the with block of line 195 is left: every
\* future has finished and was yielded by as_completed
AsCompletedExhausted == collected = Queries

\* lines 227-233, once as_completed is exhausted: the sort,
\* _print_final_stats and the return; line 260 divides by
\* stats['total_processed']
FinishBatch ==
    /\ pc = "collect"
    /\ AsCompletedExhausted
    /\ results' = SortByRowIndex(results)
    /\ out_of_order' = (results' # results)
    /\ pc' = IF stats.total_processed = 0 THEN "raised" ELSE "returned"
    /\ UNCHANGED <<products_data, max_workers, st, search_result, fault, res, stats,
                   collected, rel_i, rel_checked>>
    /\ UNCHANGED <<cmpvars, ratevars, auxvars>>

\* a test that also takes the results whose declared grade is missing
NeedsRelevanceCheckLoose(result) ==
    result.validation_result \in {Incorrect, DeclaredMissing}

\* a pass that re-validates every result that has a matched model
NeedsRelevanceCheckAny(result) == result.matched_model # "absent"

\* the test of line 115 of main_fast.py
NeedsRelevanceCheck(result) == result.validation_result = Incorrect

\* lines 102-112 of main_fast.py: the count of the 'Incorrect' results
RelevanceBegin ==
    /\ pc = "returned"
    /\ IF \E i \in 1..Len(results) : NeedsRelevanceCheck(res[results[i]])
       THEN pc' = "relevance" /\ rel_i' = 1
       ELSE pc' = "save" /\ rel_i' = rel_i
    /\ UNCHANGED <<products_data, max_workers, st, search_result, fault, res, stats,
                   collected, results, out_of_order, rel_checked>>
    /\ UNCHANGED <<cmpvars, ratevars, auxvars>>

\* lines 124-125 of main_fast.py
Downgrade(result) ==
    [result EXCEPT !.validation_result = NotFound,
                   !.details = "irrelevant product, search judged invalid: model"]

\* lines 114-136 of main_fast.py: one turn of the loop over the results;
\* `answer` is what is_relevant_match gives for the models: a boolean or an
\* exception, which ends the pass with the results as they are
RelevanceStep(answer) ==
    /\ pc = "relevance"
    /\ rel_i <= Len(results)
    /\ LET k == results[rel_i]
           last == rel_i = Len(results)
       IN  IF NeedsRelevanceCheck(res[k])
           THEN /\ rel_checked' = rel_checked \cup {k}
                /\ res' = IF answer = "irrelevant"
                          THEN [res EXCEPT ![k] = Downgrade(res[k])]
                          ELSE res
                /\ pc' = IF answer = "raise" \/ last THEN "save" ELSE pc
                /\ rel_i' = IF answer = "raise" THEN rel_i ELSE rel_i + 1
           ELSE /\ answer = "relevant"
                /\ rel_checked' = rel_checked
                /\ res' = res
                /\ pc' = IF last THEN "save" ELSE pc
                /\ rel_i' = rel_i + 1
    /\ UNCHANGED <<products_data, max_workers, st, search_result, fault, stats,
                   collected, results, out_of_order>>
    /\ UNCHANGED <<cmpvars, ratevars, auxvars>>

\* _save_results and the report: the results are read, not changed
SaveResults ==
    /\ pc = "save"
    /\ pc' = "final"
    /\ UNCHANGED <<products_data, max_workers, st, search_result, fault, res, stats,
                   collected, results, out_of_order, rel_i, rel_checked>>
    /\ UNCHANGED <<cmpvars, ratevars, auxvars>>

-----------------------------------------------------------------------------
(* SpecRate: the threads of the pool passing _rate_limit_control            *)

MaxThreads == 2
MaxTasks == 4
MaxTime == 6

\* request_interval of FastBatchProcessor.__init__, in ticks of the clock
request_interval == 2

ThreadIds == 1 .. MaxThreads
RateInit ==
    /\ now = 0
    /\ request_lock = NoThread
    /\ last_request_time = [t \in ThreadIds |-> NoTime]
    /\ tpc = [t \in ThreadIds |-> "idle"]
    /\ wake = [t \in ThreadIds |-> 0]
    /\ queued \in 1..MaxTasks

\* a sleep one tick short of the rest of the interval
SleepTimeShort(elapsed) == request_interval - elapsed - 1

\* line 68: sleep_time = self.request_interval - elapsed
SleepTime(elapsed) == request_interval - elapsed

\* an idle thread of the pool takes a queued query and calls
\* _search_single_product, which reaches line 110
TakeQuery(t) ==
    /\ tpc[t] = "idle"
    /\ queued > 0
    /\ queued' = queued - 1
    /\ tpc' = [tpc EXCEPT ![t] = "at lock"]
    /\ UNCHANGED <<now, request_lock, last_request_time, wake>>
    /\ UNCHANGED <<cmpvars, batchvars, auxvars>>

\* lines 61-72: the thread acquires request_lock; with an entry younger than
\* the interval it sleeps holding the lock, otherwise it stores the time and
\* leaves the with block
RateLimitEnter(t) ==
    /\ tpc[t] = "at lock"
    /\ request_lock = NoThread
    /\ LET current_time == now
           elapsed == current_time - last_request_time[t]
       IN  IF last_request_time[t] # NoTime /\ elapsed < request_interval
           THEN /\ request_lock' = t
                /\ wake' = [wake EXCEPT ![t] = now + SleepTime(elapsed)]
                /\ tpc' = [tpc EXCEPT ![t] = "sleeping"]
                /\ last_request_time' = last_request_time
           ELSE /\ request_lock' = NoThread
                /\ wake' = wake
                /\ tpc' = [tpc EXCEPT ![t] = "search"]
                /\ last_request_time' = [last_request_time EXCEPT ![t] = now]
    /\ UNCHANGED <<now, queued>>
    /\ UNCHANGED <<cmpvars, batchvars, auxvars>>

\* lines 70-72: time.sleep returns, not before the time asked for; the time
\* is stored and the lock released
RateLimitWake(t) ==
    /\ tpc[t] = "sleeping"
    /\ now >= wake[t]
    /\ last_request_time' = [last_request_time EXCEPT ![t] = now]
    /\ request_lock' = NoThread
    /\ tpc' = [tpc EXCEPT ![t] = "search"]
    /\ UNCHANGED <<now, wake, queued>>
    /\ UNCHANGED <<cmpvars, batchvars, auxvars>>

\* lines 112-176: the search and the rest of the call, of any duration
SearchDone(t) ==
    /\ tpc[t] = "search"
    /\ tpc' = [tpc EXCEPT ![t] = "idle"]
    /\ UNCHANGED <<now, request_lock, last_request_time, wake, queued>>
    /\ UNCHANGED <<cmpvars, batchvars, auxvars>>

\* the clock advances
Tick ==
    /\ now < MaxTime
    /\ now' = now + 1
    /\ UNCHANGED <<request_lock, last_request_time, tpc, wake, queued>>
    /\ UNCHANGED <<cmpvars, batchvars, auxvars>>

vars == <<cmpvars, batchvars, ratevars, auxvars>>

Next ==
    \/ SubmitAll
    \/ \E k \in Queries : StartQuery(k)
    \/ \E k \in Queries, out \in SearchOutcomes : SearchProduct(k, out)
    \/ \E k \in Queries, raises \in BOOLEAN : ScoreAndDecide(k, raises)
    \/ \E k \in Queries : CollectResult(k)
    \/ FinishBatch
    \/ RelevanceBegin
    \/ \E answer \in {"relevant", "irrelevant", "raise"} : RelevanceStep(answer)
    \/ SaveResults

Spec == Init /\ [][Next]_vars

CompareNext == Compare

CompareSetup == CompareInit /\ BatchIdle /\ RateIdle /\ AuxIdle

SpecCompare == CompareSetup /\ [][CompareNext]_vars

RateSetup == RateInit /\ CompareIdle /\ BatchIdle /\ AuxIdle

RateNext ==
    \/ \E t \in ThreadIds : TakeQuery(t)
    \/ \E t \in ThreadIds : RateLimitEnter(t)
    \/ \E t \in ThreadIds : RateLimitWake(t)
    \/ \E t \in ThreadIds : SearchDone(t)
    \/ Tick

SpecRate == RateSetup /\ [][RateNext]_vars


-----------------------------------------------------------------------------
(* SpecCrawler: the threads of the pool calling _get_crawler_for_thread,    *)
(* statement by statement                                                   *)

MaxCalls == 2

\* the other specifications at rest
ModelIdle == CompareIdle /\ BatchIdle /\ RateIdle

CrawlerInit ==
    /\ has_crawlers = FALSE
    /\ crawlers = [t \in ThreadIds |-> NoHandle]
    /\ created = 0
    /\ cpc = [t \in ThreadIds |-> "idle"]
    /\ missing = [t \in ThreadIds |-> FALSE]
    /\ used = [t \in ThreadIds |-> {}]
    /\ calls = [t \in ThreadIds |-> 0]
    /\ close_ran = FALSE
    /\ closed = {}

\* _search_single_product, line 113: the thread calls _get_crawler_for_thread
CrawlerCall(t) ==
    /\ ~close_ran
    /\ cpc[t] = "idle"
    /\ calls[t] < MaxCalls
    /\ calls' = [calls EXCEPT ![t] = @ + 1]
    /\ cpc' = [cpc EXCEPT ![t] = "hasattr"]
    /\ UNCHANGED <<has_crawlers, crawlers, created, missing, used, close_ran, closed>>
    /\ UNCHANGED crawler_frame

\* line 50: if not hasattr(self, '_crawlers')
CrawlerHasattr(t) ==
    /\ cpc[t] = "hasattr"
    /\ cpc' = [cpc EXCEPT ![t] = IF has_crawlers THEN "lookup" ELSE "create dict"]
    /\ UNCHANGED <<has_crawlers, crawlers, created, missing, used, calls, close_ran, closed>>
    /\ UNCHANGED crawler_frame

\* line 51: self._crawlers = {}
CrawlerNewDict(t) ==
    /\ cpc[t] = "create dict"
    /\ has_crawlers' = TRUE
    /\ crawlers' = [u \in ThreadIds |-> NoHandle]
    /\ cpc' = [cpc EXCEPT ![t] = "lookup"]
    /\ UNCHANGED <<created, missing, used, calls, close_ran, closed>>
    /\ UNCHANGED crawler_frame

\* line 53: if thread_id not in self._crawlers
CrawlerLookup(t) ==
    /\ cpc[t] = "lookup"
    /\ missing' = [missing EXCEPT ![t] = crawlers[t] = NoHandle]
    /\ cpc' = [cpc EXCEPT ![t] = IF crawlers[t] = NoHandle THEN "construct"
                                                            ELSE "return"]
    /\ UNCHANGED <<has_crawlers, crawlers, created, used, calls, close_ran, closed>>
    /\ UNCHANGED crawler_frame

\* line 54: self._crawlers[thread_id] = AntiCrawlerHandler(); the object is
\* constructed, then stored in the dict self._crawlers names at that time
CrawlerStore(t) ==
    /\ cpc[t] = "construct"
    /\ created' = created + 1
    /\ crawlers' = [crawlers EXCEPT ![t] = created']
    /\ cpc' = [cpc EXCEPT ![t] = "return"]
    /\ UNCHANGED <<has_crawlers, missing, used, calls, close_ran, closed>>
    /\ UNCHANGED crawler_frame

\* line 57: return self._crawlers[thread_id], and the search of line 119 with
\* the handle; a KeyError when the entry is not in the dict, which the except
\* of line 171 catches
CrawlerReturn(t) ==
    /\ cpc[t] = "return"
    /\ used' = IF crawlers[t] = NoHandle THEN used
               ELSE [used EXCEPT ![t] = @ \cup {crawlers[t]}]
    /\ cpc' = [cpc EXCEPT ![t] = "idle"]
    /\ UNCHANGED <<has_crawlers, crawlers, created, missing, calls, close_ran, closed>>
    /\ UNCHANGED crawler_frame

\* the handles the dict self._crawlers holds
Registered == { crawlers[t] : t \in ThreadIds } \ {NoHandle}

\* FastBatchProcessor.close(), lines 266-272, called by FastValidator.close()
\* once the batch is over and no worker runs: close() of every value of
\* self._crawlers, when the attribute exists
CrawlerClose ==
    /\ ~close_ran
    /\ \A t \in ThreadIds : cpc[t] = "idle"
    /\ close_ran' = TRUE
    /\ closed' = IF has_crawlers THEN Registered ELSE {}
    /\ UNCHANGED <<has_crawlers, crawlers, created, cpc, missing, used, calls>>
    /\ UNCHANGED crawler_frame

CrawlerSetup ==
    CrawlerInit /\ ModelIdle /\ StatsIdle /\ DedupIdle /\ ExtractIdle /\ ScoreIdle
        /\ RelevantIdle
        /\ PassIdle
        /\ SearchIdle
        /\ LiveIdle

CrawlerNext ==
    \/ \E t \in ThreadIds : CrawlerCall(t)
    \/ \E t \in ThreadIds : CrawlerHasattr(t)
    \/ \E t \in ThreadIds : CrawlerNewDict(t)
    \/ \E t \in ThreadIds : CrawlerLookup(t)
    \/ \E t \in ThreadIds : CrawlerStore(t)
    \/ \E t \in ThreadIds : CrawlerReturn(t)
    \/ CrawlerClose

SpecCrawler == CrawlerSetup /\ [][CrawlerNext]_vars

-----------------------------------------------------------------------------
(* SpecStats: the threads of the pool calling _update_stats, each += being  *)
(* a read followed by a write                                               *)

StatsInit ==
    /\ stats_lock = NoThread
    /\ self_stats = [total_processed |-> 0, successful |-> 0, failed |-> 0]
    /\ spc = [t \in ThreadIds |-> "idle"]
    /\ field = [t \in ThreadIds |-> "total_processed"]
    /\ loaded = [t \in ThreadIds |-> 0]
    /\ success_arg = [t \in ThreadIds |-> FALSE]
    /\ submitted \in 1..MaxTasks
    /\ unfinished = submitted

\* a thread that enters `with self.stats_lock` regardless of its holder
AcquirableAlways(lock) == TRUE

\* threading.Lock: acquired only when no thread holds it
Acquirable(lock) == lock = NoThread

\* lines 169 and 173: a worker ends a query with _update_stats(success)
UpdateStatsCall(t, outcome) ==
    /\ spc[t] = "idle"
    /\ unfinished > 0
    /\ unfinished' = unfinished - 1
    /\ success_arg' = [success_arg EXCEPT ![t] = outcome]
    /\ spc' = [spc EXCEPT ![t] = "acquire"]
    /\ UNCHANGED <<stats_lock, self_stats, field, loaded, submitted>>
    /\ UNCHANGED stats_frame

\* line 76: with self.stats_lock
UpdateStatsAcquire(t) ==
    /\ spc[t] = "acquire"
    /\ Acquirable(stats_lock)
    /\ stats_lock' = t
    /\ field' = [field EXCEPT ![t] = "total_processed"]
    /\ spc' = [spc EXCEPT ![t] = "load"]
    /\ UNCHANGED <<self_stats, loaded, success_arg, unfinished, submitted>>
    /\ UNCHANGED stats_frame

\* lines 77, 79, 81: the read of self.stats[field] += 1
UpdateStatsLoad(t) ==
    /\ spc[t] = "load"
    /\ loaded' = [loaded EXCEPT ![t] = self_stats[field[t]]]
    /\ spc' = [spc EXCEPT ![t] = "store"]
    /\ UNCHANGED <<stats_lock, self_stats, field, success_arg, unfinished, submitted>>
    /\ UNCHANGED stats_frame

\* lines 77-81: the write of self.stats[field] += 1, and the choice of the
\* counter that follows total_processed
UpdateStatsStore(t) ==
    /\ spc[t] = "store"
    /\ self_stats' = [self_stats EXCEPT ![field[t]] = loaded[t] + 1]
    /\ IF field[t] = "total_processed"
       THEN /\ field' = [field EXCEPT ![t] = IF success_arg[t] THEN "successful"
                                                           ELSE "failed"]
            /\ spc' = [spc EXCEPT ![t] = "load"]
       ELSE /\ field' = field
            /\ spc' = [spc EXCEPT ![t] = "release"]
    /\ UNCHANGED <<stats_lock, loaded, success_arg, unfinished, submitted>>
    /\ UNCHANGED stats_frame

\* the end of the with block
UpdateStatsRelease(t) ==
    /\ spc[t] = "release"
    /\ stats_lock' = NoThread
    /\ spc' = [spc EXCEPT ![t] = "idle"]
    /\ UNCHANGED <<self_stats, field, loaded, success_arg, unfinished, submitted>>
    /\ UNCHANGED stats_frame

StatsSetup ==
    StatsInit /\ ModelIdle /\ CrawlerIdle /\ DedupIdle /\ ExtractIdle /\ ScoreIdle
        /\ RelevantIdle
        /\ PassIdle
        /\ SearchIdle
        /\ LiveIdle

StatsNext ==
    \/ \E t \in ThreadIds, outcome \in BOOLEAN : UpdateStatsCall(t, outcome)
    \/ \E t \in ThreadIds : UpdateStatsAcquire(t)
    \/ \E t \in ThreadIds : UpdateStatsLoad(t)
    \/ \E t \in ThreadIds : UpdateStatsStore(t)
    \/ \E t \in ThreadIds : UpdateStatsRelease(t)

SpecStats == StatsSetup /\ [][StatsNext]_vars

-----------------------------------------------------------------------------
(* SpecCancel: Spec with a KeyboardInterrupt in the main thread while it    *)
(* waits in the as_completed loop of process_batch                          *)

\* a KeyboardInterrupt is raised in the loop of lines 203-225; it is not an
\* Exception, so line 210 does not catch it and the with block is left
Interrupt ==
    /\ pc = "collect"
    /\ pc' = "interrupted"
    /\ UNCHANGED <<products_data, max_workers, st, search_result, fault, res, stats,
                   collected, results, out_of_order, rel_i, rel_checked>>
    /\ UNCHANGED <<cmpvars, ratevars, auxvars>>

\* the pool's shutdown(wait=True) returns when the workers have run every
\* submitted query; the interrupt leaves process_batch and is caught at line
\* 66 of main_fast.py, run_fast_validation returns False
ShutdownDone ==
    /\ pc = "interrupted"
    /\ \A k \in Queries : st[k] = "done"
    /\ pc' = "cancelled"
    /\ UNCHANGED <<products_data, max_workers, st, search_result, fault, res, stats,
                   collected, results, out_of_order, rel_i, rel_checked>>
    /\ UNCHANGED <<cmpvars, ratevars, auxvars>>

CancelNext ==
    \/ SubmitAll
    \/ \E k \in Queries : StartQuery(k)
    \/ \E k \in Queries, out \in SearchOutcomes : SearchProduct(k, out)
    \/ \E k \in Queries, raises \in BOOLEAN : ScoreAndDecide(k, raises)
    \/ \E k \in Queries : CollectResult(k)
    \/ FinishBatch
    \/ RelevanceBegin
    \/ \E answer \in {"relevant", "irrelevant", "raise"} : RelevanceStep(answer)
    \/ SaveResults
    \/ Interrupt
    \/ ShutdownDone

SpecCancel == Init /\ [][CancelNext]_vars

-----------------------------------------------------------------------------
(* SpecDedup: extract_energy_levels applied to the records of an answer     *)

MaxRecords == 3

\* the records the bounded answers are made of: two models, with or without
\* a level, with an empty or a date-like announcement time
DedupModels == {"KFR-35GW", "KFR-26GW"}
DedupLevels == { <<>>, <<"1">>, <<"2">> }
DedupTimes == { <<>>, <<"2">>, <<"2", "1">>, <<"1", "2">> }
DedupRecords ==
    { Raw(m, l, t) : m \in DedupModels, l \in DedupLevels, t \in DedupTimes }

DedupInit ==
    /\ \E n \in 0..MaxRecords : raw_list \in [1..n -> DedupRecords]
    /\ filtered_records = <<>>
    /\ dedup_pc = "input"

\* one call extract_energy_levels({'list': raw_list})
ExtractEnergyLevels ==
    /\ dedup_pc = "input"
    /\ filtered_records' = extract_energy_levels([kind |-> "data", list |-> raw_list])
    /\ dedup_pc' = "extracted"
    /\ UNCHANGED raw_list
    /\ UNCHANGED dedup_frame

DedupSetup ==
    DedupInit /\ ModelIdle /\ CrawlerIdle /\ StatsIdle /\ ExtractIdle /\ ScoreIdle
        /\ RelevantIdle
        /\ PassIdle
        /\ SearchIdle
        /\ LiveIdle

DedupNext == ExtractEnergyLevels

SpecDedup == DedupSetup /\ [][DedupNext]_vars

-----------------------------------------------------------------------------
(* SpecExtract: extract_model applied to a text                             *)

MaxModelLen == 3

\* the characters the bounded model texts are built from
ModelChars == {"ge", "li", " ", "R", "F", "3", "ban"}

\* the bounded texts, None, and longer identifiers with the brands and the
\* version endings extract_model looks for
ModelTexts ==
    TextsUpTo(ModelChars, MaxModelLen)
        \cup { PyNone,
               <<" ", " ", " ", " ", " ">>,
               GeLi \o <<"K", "F", "R", "-", "3", "5", "G", "W", "/", "X">>,
               <<" ">> \o GeLi \o <<" ", "K", "F", "R", " ">>,
               MeiDiKongTiao \o <<"K", "F", "R", "-", "3", "5">>,
               MeiDi \o <<" ", "K", "F", "R", "-", "3", "5">>,
               <<"T", "C", "L", " ", "K", "F", "R", "d">>,
               <<"R", "F", "1", "2", "W">> \o <<"ban", "ge">>,
               <<"mi", "jia", " ", "x", "2", "P", "r", "o">>,
               <<"x", "2", "M", "A", "X">>,
               MeiDiKongTiao \o <<" ", "2", "0", "1", "7", "ban">>,
               <<"mi", "jia", "K", "F", "R", "-", "3", "5", "mi", "jia">>,
               <<"kong", "tiao", " ", "K", "F", " ", "ge", "li">>,
               MeiDiKongTiao,
               <<"kong", "tiao", "T", "C", "L", "5">>,
               <<"kong", "tiao", " ", "ge", "li", "R">> }

ExtractInit ==
    /\ raw_model \in ModelTexts
    /\ canonical_model = <<>>
    /\ extract_pc = "input"

\* one call extract_model(raw_model)
ExtractModel ==
    /\ extract_pc = "input"
    /\ canonical_model' = extract_model(raw_model)
    /\ extract_pc' = "returned"
    /\ UNCHANGED raw_model
    /\ UNCHANGED extract_frame

ExtractSetup ==
    ExtractInit /\ ModelIdle /\ CrawlerIdle /\ StatsIdle /\ DedupIdle /\ ScoreIdle
        /\ RelevantIdle
        /\ PassIdle
        /\ SearchIdle
        /\ LiveIdle

ExtractNext == ExtractModel

SpecExtract == ExtractSetup /\ [][ExtractNext]_vars

-----------------------------------------------------------------------------
(* SpecScore: one query from its candidates on: score_match, find_best_match *)
(* and lines 137-160 of _search_single_product                              *)

MaxCandidates == 2

KFR35GWX == <<"K", "F", "R", "-", "3", "5", "G", "W", "/", "X">>
X2 == <<"X", "2">>

\* the bounded queries: the identifier and the declared level of a row
ScoreQueries ==
    { [model |-> GeLi \o KFR35GWX, level |-> YiJi],     \* '格力KFR-35GW/X'
      [model |-> <<"K", "F", "R", "-", "3", "5", "G", "W">>, level |-> YiJi],
      [model |-> MeiDi \o <<" ", "K", "F", "-", "2", "6">>, level |-> ErJi],
      [model |-> X2, level |-> <<>>] }

\* a candidate as extract_energy_levels builds it
Candidate(model, producer, level, number) ==
    [model |-> model, producer |-> producer, energy_level |-> level,
     record_number |-> number]

\* the bounded candidates
CandidatePool ==
    { Candidate(KFR35GWX, GeLi, YiJi, <<"2">>),
      Candidate(GeLi \o KFR35GWX, <<>>, ErJi, <<>>),
      Candidate(<<"K", "F", "R", "-", "2", "6", "G", "W">>, LG, YiJi, <<>>),
      Candidate(<<"E", "6">>, <<>>, <<"wei", "zhi">>, <<>>),
      Candidate(<<>>, <<>>, WuJi, <<>>) }

\* _filter_latest_records leaves one candidate per model
DistinctModels(list) ==
    \A i, j \in 1..Len(list) : list[i].model = list[j].model => i = j

ScoreInit ==
    /\ \E query \in ScoreQueries :
           /\ query_model = query.model
           /\ query_level = query.level
    /\ query_extracted \in {extract_model(query_model), X2}
    /\ \E n \in 1..MaxCandidates :
           /\ candidates \in [1..n -> CandidatePool]
           /\ DistinctModels(candidates)
    /\ candidate_scores = <<>>
    /\ ranking = <<>>
    /\ query_result = <<>>
    /\ score_pc = "input"

\* score_match(original_model, extracted_model, candidate) on each candidate
ScoreMatch ==
    /\ score_pc = "input"
    /\ candidate_scores' = [i \in 1..Len(candidates) |->
                     score_match(query_model, query_extracted, candidates[i])] \o <<>>
    /\ score_pc' = "scored"
    /\ UNCHANGED <<query_model, query_extracted, query_level, candidates, ranking,
                   query_result>>
    /\ UNCHANGED score_frame

\* fast_batch_processor.py lines 131-137: the call of find_best_match
FindBestMatch ==
    /\ score_pc = "scored"
    /\ ranking' = find_best_match(candidates, query_extracted, query_model)
    /\ score_pc' = "ranked"
    /\ UNCHANGED <<query_model, query_extracted, query_level, candidates,
                   candidate_scores, query_result>>
    /\ UNCHANGED score_frame

\* fast_batch_processor.py lines 139-160: the verdict and the detail
RecordDecision ==
    /\ score_pc = "ranked"
    /\ query_result' =
           DecidedResult([InitialResult([row_index |-> 0,
                                         original_model |-> query_model,
                                         excel_energy_level |-> query_level])
                             EXCEPT !.search_success = TRUE],
                         ranking.best_match)
    /\ score_pc' = "decided"
    /\ UNCHANGED <<query_model, query_extracted, query_level, candidates,
                   candidate_scores, ranking>>
    /\ UNCHANGED score_frame

ScoreSetup ==
    ScoreInit /\ ModelIdle /\ CrawlerIdle /\ StatsIdle /\ DedupIdle /\ ExtractIdle
        /\ RelevantIdle
        /\ PassIdle
        /\ SearchIdle
        /\ LiveIdle

ScoreNext ==
    \/ ScoreMatch
    \/ FindBestMatch
    \/ RecordDecision

SpecScore == ScoreSetup /\ [][ScoreNext]_vars

-----------------------------------------------------------------------------
(* RelevanceChecker (relevance_checker.py)                                  *)

XiChenQi == <<"xi", "chen", "qi">>           \* '吸尘器'
JingHuaQi == <<"jing", "hua", "qi">>         \* '净化器'
KongTiao == <<"kong", "tiao">>               \* '空调'
BingXiang == <<"bing", "xiang">>             \* '冰箱'
YiZi == <<"yi3", "zi">>                      \* '椅子'
Unknown == <<"wei", "zhi">>                  \* '未知'

\* product_categories, lines 18-33, in the order of the dict, with the
\* categories and keywords that the texts of the model can be written with
product_categories ==
    << [category |-> KongTiao,
        keywords |-> << KongTiao, <<"K", "F", "R">>, <<"K", "F">>, <<"G", "M", "V">> >>],
       [category |-> BingXiang,
        keywords |-> << BingXiang, <<"B", "C", "D">> >>],
       [category |-> <<"dian", "shi">>,
        keywords |-> << <<"dian", "shi">>, <<"L", "E", "D">> >>],
       [category |-> XiChenQi,
        keywords |-> << XiChenQi >>],
       [category |-> JingHuaQi,
        keywords |-> << JingHuaQi, <<"kong", "qi4", "jing", "hua">> >>],
       [category |-> YiZi,
        keywords |-> << <<"yi3">>, <<"dian", "nao", "yi3">> >>] >>

\* extract_product_category(model): the first category of the table one of
\* whose keywords, lower-cased, is in the lower-cased model
extract_product_category(model) ==
    LET model_lower == lower(model) \o <<>>
        has(n) == \E k \in 1..Len(product_categories[n].keywords) :
                      Contains(model_lower,
                               lower(product_categories[n].keywords[k]) \o <<>>)
        hits == { n \in 1..Len(product_categories) : has(n) }
    IN  IF hits = {} THEN Unknown
        ELSE product_categories[CHOOSE n \in hits : \A m \in hits : n <= m].category

\* calculate_text_similarity(text1, text2): SequenceMatcher(None, text1,
\* text2).ratio() as a fraction, 0 when a text is empty
calculate_text_similarity(text1, text2) ==
    IF Falsy(text1) \/ Falsy(text2) THEN <<0, 1>>
    ELSE << 2 * MatchingSize(text1, text2), Len(text1) + Len(text2) >>

\* extract_chinese_part(model): the Chinese characters of the model, joined
extract_chinese_part(model) == SelectSeq(model, is_chinese)

\* brands of extract_brand_info, lines 96-101, in their order, with the
\* brands that the texts of the model can be written with
relevance_brands ==
    << GeLi, MeiDi, <<"xiao", "mi">>, <<"mi", "jia">>, TCL, LG >>

\* extract_brand_info(model)
extract_brand_info(model) == FirstBrandIn(model, relevance_brands)

\* a model that never takes the branch of line 135
is_chinese_with_number_never(model) == FALSE

\* is_chinese_with_number(model)
is_chinese_with_number(model) ==
    LET clean_model == SelectSeq(model, IsWordOrCjk)
        has_chinese == \E i \in 1..Len(clean_model) : is_chinese(clean_model[i])
        has_number == \E i \in 1..Len(clean_model) : clean_model[i] \in Digits
        chinese_count == Len(SelectSeq(clean_model, is_chinese))
        total_count == Len(clean_model)
    IN  IF total_count = 0 THEN FALSE
        ELSE has_chinese /\ has_number /\ 2 * chinese_count > total_count

\* check_chinese_model_relevance(original_model, matched_model)
check_chinese_model_relevance(original_model, matched_model) ==
    LET chinese_similarity ==
            calculate_text_similarity(extract_chinese_part(original_model),
                                      extract_chinese_part(matched_model))
    IN  ~RatLess(chinese_similarity, <<3, 10>>)

\* a test of the categories that takes '未知' for a category
CategoriesDifferOrUnknown(original_category, matched_category) ==
    original_category # matched_category

\* lines 129-130: both categories are known and they differ
CategoriesDiffer(original_category, matched_category) ==
    /\ original_category # Unknown
    /\ matched_category # Unknown
    /\ original_category # matched_category

\* lines 138-160 of is_relevant_match: the brands, the producers, the models
GeneralChecks(original_model, matched_model, original_producer, matched_producer) ==
    LET original_brand == extract_brand_info(original_model)
        matched_brand == extract_brand_info(matched_model)
    IN  /\ ~(original_brand # <<>> /\ matched_brand # <<>>
                 /\ original_brand # matched_brand)
        /\ ~(original_producer # <<>> /\ matched_producer # <<>>
                 /\ RatLess(calculate_text_similarity(original_producer,
                                                      matched_producer), <<3, 10>>))
        /\ ~RatLess(calculate_text_similarity(original_model, matched_model),
                    <<2, 10>>)

\* lines 134-160 of is_relevant_match: what follows the test of the categories
AfterCategoryCheck(original_model, matched_model, original_producer, matched_producer) ==
    IF is_chinese_with_number(original_model)
    THEN check_chinese_model_relevance(original_model, matched_model)
    ELSE GeneralChecks(original_model, matched_model, original_producer,
                       matched_producer)

\* is_relevant_match(original_model, matched_model, original_producer,
\* matched_producer), for texts
is_relevant_match(original_model, matched_model, original_producer, matched_producer) ==
    IF CategoriesDiffer(extract_product_category(original_model),
                        extract_product_category(matched_model))
    THEN FALSE
    ELSE AfterCategoryCheck(original_model, matched_model, original_producer,
                            matched_producer)

-----------------------------------------------------------------------------
(* SpecRelevant: is_relevant_match applied to two models and two producers  *)

MiJiaXiChenQi2 == <<"mi", "jia", "wu2", "xian", "xi", "chen", "qi", "2">>
DianNaoYi2017Ban == <<"dian", "nao", "yi3", "2", "0", "1", "7", "ban">>

\* the bounded pairs of an original and a matched model
ModelPairs ==
    { <<MiJiaXiChenQi2, DianNaoYi2017Ban>>,
      <<GeLi \o <<"K", "F", "R", "-", "3", "5">>, KFR35GWX>>,
      <<MeiDiKongTiao \o <<"K", "F", "R", "-", "2", "6">>,
        GeLi \o <<"K", "F", "R", "-", "2", "6">>>>,
      <<<<"xiao", "mi">> \o JingHuaQi \o <<"3">>,
        <<"kong", "qi4">> \o JingHuaQi \o <<"P", "r", "o">>>>,
      <<MeiDiKongTiao \o <<"2">>, GeLi \o KongTiao>>,
      <<MeiDiKongTiao \o <<"2">>, GeLi \o BingXiang>>,
      <<X2, <<"E", "6">>>>,
      <<X2, <<"X", "2", "6">>>>,
      <<<<"mi", "jia", "2">>, <<"K", "F", "R", "-", "3", "5">>>>,
      <<<<"mi", "jia", " ", "-", " ", "X", "2">>, <<"mi", "jia", "E">>>>,
      <<TCL \o <<" ", "L", "E", "D", "2">>, GeLi \o <<"K", "F", "-", "2", "6">>>>,
      <<GeLi \o <<"K", "F", "R", "-", "3", "5">>, GeLi \o <<"B", "C", "D", "-", "3", "5">>>>,
      <<MeiDi \o <<"X", "2">>, GeLi \o <<"X", "2">>>>,
      <<GeLi \o <<"X", "2">>, <<"X", "2", "-", "E">>>>,
      <<GeLi \o <<"X", "2">>, GeLi \o <<"K", "F", "R", "-", "2">>>>,
      <<<<"mi", "jia", " ", "-", " ", "2">>, <<"mi", "jia", "E">>>> }

\* the bounded producers
Producers == { <<>>, GeLi, MeiDi \o <<"dian", "qi">> }

RelevantInit ==
    /\ \E models \in ModelPairs, original_producer \in Producers,
          matched_producer \in Producers :
           checked_pair = [original_model |-> models[1],
                           matched_model |-> models[2],
                           original_producer |-> original_producer,
                           matched_producer |-> matched_producer]
    /\ is_relevant = FALSE
    /\ relevant_pc = "input"

\* one call of is_relevant_match
IsRelevantMatch ==
    /\ relevant_pc = "input"
    /\ is_relevant' = is_relevant_match(checked_pair.original_model,
                                        checked_pair.matched_model,
                                        checked_pair.original_producer,
                                        checked_pair.matched_producer)
    /\ relevant_pc' = "returned"
    /\ UNCHANGED checked_pair
    /\ UNCHANGED relevant_frame

RelevantSetup ==
    RelevantInit /\ ModelIdle /\ CrawlerIdle /\ StatsIdle /\ DedupIdle
        /\ ExtractIdle /\ ScoreIdle /\ PassIdle
        /\ SearchIdle
        /\ LiveIdle

RelevantNext == IsRelevantMatch

SpecRelevant == RelevantSetup /\ [][RelevantNext]_vars

-----------------------------------------------------------------------------
(* SpecPass: FastValidator._perform_relevance_check with is_relevant_match  *)
(* computed from the models of the results                                  *)

MaxResults == 2

\* a result as _search_single_product leaves it, with the fields the pass
\* reads and writes
PassResult(original_model, matched_model, validation_result) ==
    [original_model |-> original_model, matched_model |-> matched_model,
     validation_result |-> validation_result,
     details |-> DetailsFor(validation_result)]

\* the bounded results; a matched model of None is the productModel of a
\* record that holds no text
PassResults ==
    { PassResult(MiJiaXiChenQi2, DianNaoYi2017Ban, Incorrect),
      PassResult(GeLi \o <<"K", "F", "R", "-", "3", "5">>, KFR35GWX, Incorrect),
      PassResult(GeLi \o <<"K", "F", "R", "-", "3", "5">>, PyNone, Incorrect),
      PassResult(MeiDiKongTiao \o <<"2">>, GeLi \o BingXiang, Correct),
      PassResult(X2, <<"E", "6">>, DeclaredMissing),
      PassResult(X2, <<>>, NotFound) }

PassInit ==
    /\ \E n \in 1..MaxResults : pass_decided \in [1..n -> PassResults]
    /\ pass_results = pass_decided
    /\ pass_i = 0
    /\ pass_pc = "returned"

\* main_fast.py lines 102-112: the count of the 'Incorrect' results
PassBegin ==
    /\ pass_pc = "returned"
    /\ IF \E i \in 1..Len(pass_results) : NeedsRelevanceCheck(pass_results[i])
       THEN pass_pc' = "checking" /\ pass_i' = 1
       ELSE pass_pc' = "done" /\ pass_i' = pass_i
    /\ UNCHANGED <<pass_decided, pass_results>>
    /\ UNCHANGED pass_frame

\* main_fast.py lines 114-136: one turn of the loop; is_relevant_match
\* raises AttributeError on a matched model that is no text
\* (relevance_checker.py line 45), which ends the pass (lines 133-136)
PassStep ==
    /\ pass_pc = "checking"
    /\ pass_i <= Len(pass_results)
    /\ LET result == pass_results[pass_i]
           last == pass_i = Len(pass_results)
       IN  IF ~NeedsRelevanceCheck(result)
           THEN /\ pass_results' = pass_results
                /\ pass_i' = pass_i + 1
                /\ pass_pc' = IF last THEN "done" ELSE pass_pc
           ELSE IF result.matched_model = PyNone
           THEN /\ pass_results' = pass_results
                /\ pass_i' = pass_i
                /\ pass_pc' = "done"
           ELSE /\ pass_results' =
                       IF is_relevant_match(result.original_model,
                                            result.matched_model, <<>>, <<>>)
                       THEN pass_results
                       ELSE [pass_results EXCEPT ![pass_i] = Downgrade(result)]
                /\ pass_i' = pass_i + 1
                /\ pass_pc' = IF last THEN "done" ELSE pass_pc
    /\ UNCHANGED pass_decided
    /\ UNCHANGED pass_frame

PassSetup ==
    PassInit /\ ModelIdle /\ CrawlerIdle /\ StatsIdle /\ DedupIdle /\ ExtractIdle
        /\ ScoreIdle /\ RelevantIdle
        /\ SearchIdle
        /\ LiveIdle

PassNext ==
    \/ PassBegin
    \/ PassStep

SpecPass == PassSetup /\ [][PassNext]_vars

-----------------------------------------------------------------------------
(* SpecSearch: AntiCrawlerHandler.search_product, one step per turn of its   *)
(* retry loop, under every sequence of responses                             *)

MaxRetries == 3

\* what one request can meet: an exception of the post, a status code, or a
\* status 200 with a body
Responses ==
    { "timeout", "connection_error", "other_exception",
      "status_429", "status_401_403", "status_other",
      "malformed_json",
      "success",            \* code 200, data an object
      "success_null_data",  \* code 200, data null
      "auth_error",         \* code not 200, msg holds 'token' or 'auth'
      "limit_error",        \* code not 200, msg holds 'limit' or 'frequent'
      "other_error",        \* code not 200, msg a text with none of these
      "error_null_msg" }    \* code not 200, msg null

\* an error answer of the API: status 200, body parsed, code not 200
ApiErrors == { "auth_error", "limit_error", "other_error", "error_null_msg" }

\* the branch of the loop body a response takes (lines 308-380).  A null
\* data or msg raises AttributeError at line 314 or 327, which the
\* handler of lines 375-380 catches.
Handling(response) ==
    CASE response = "success" -> "return_data"
      [] response = "other_error" -> "return_none"
      [] response \in { "auth_error", "limit_error",
                        "status_429", "status_401_403" } -> "continue"
      [] OTHER -> "continue_unless_last"

SearchInit ==
    /\ max_retries \in 1..MaxRetries
    /\ attempt = 0
    /\ responses = <<>>
    /\ search_return = "pending"

\* lines 268-380: one turn of `for attempt in range(max_retries)`, with its
\* single post of the search request
SearchAttempt(response) ==
    /\ search_return = "pending"
    /\ attempt < max_retries
    /\ responses' = Append(responses, response)
    /\ LET handling == Handling(response)
           last == ~(attempt < max_retries - 1)
       IN  IF handling = "return_data"
           THEN search_return' = "data" /\ attempt' = attempt
           ELSE IF handling = "return_none"
                   \/ (handling = "continue_unless_last" /\ last)
           THEN search_return' = "None" /\ attempt' = attempt
           ELSE search_return' = search_return /\ attempt' = attempt + 1
    /\ UNCHANGED max_retries
    /\ UNCHANGED search_frame

\* lines 382-383: the loop ran out
SearchExhausted ==
    /\ search_return = "pending"
    /\ attempt = max_retries
    /\ search_return' = "None"
    /\ UNCHANGED <<max_retries, attempt, responses>>
    /\ UNCHANGED search_frame

SearchSetup ==
    SearchInit /\ ModelIdle /\ CrawlerIdle /\ StatsIdle /\ DedupIdle /\ ExtractIdle
        /\ ScoreIdle /\ RelevantIdle /\ PassIdle
        /\ LiveIdle

SearchNext ==
    \/ \E response \in Responses : SearchAttempt(response)
    \/ SearchExhausted

SpecSearch == SearchSetup /\ [][SearchNext]_vars

-----------------------------------------------------------------------------
(* SpecLive: the main thread of process_batch, the workers of its pool and   *)
(* the locks request_lock and stats_lock.  FairLive adds the scheduling:     *)
(* every thread that can take a step eventually takes one, time.sleep ends   *)
(* and every search returns or raises.                                       *)

\* the main thread; the workers are the threads 1..pool_size
MainThread == MaxWorkers + 1

PoolWorkers == 1..pool_size

LockNames == { "request_lock", "stats_lock" }

\* the locks thread t holds
HeldBy(t) == { l \in LockNames : lock_holder[l] = t }

LiveInit ==
    /\ batch_size \in 0..MaxRows
    /\ pool_size \in 1..MaxWorkers
    /\ worker_pc = [t \in PoolWorkers |-> "idle"]
    /\ main_pc = "submit"
    /\ lock_holder = [l \in LockNames |-> NoThread]
    /\ not_started = 0
    /\ futures_done = 0
    /\ futures_seen = 0
    /\ has_entry = {}
    /\ live_processed = 0

\* lines 195-200: the pool is made and every query submitted
LiveSubmit ==
    /\ main_pc = "submit"
    /\ not_started' = batch_size
    /\ main_pc' = "as_completed"
    /\ UNCHANGED <<batch_size, pool_size, worker_pc, lock_holder, futures_done,
                   futures_seen, has_entry, live_processed>>
    /\ UNCHANGED live_frame

\* a free worker takes a queued future and reaches line 110
LiveTake(t) ==
    /\ worker_pc[t] = "idle"
    /\ not_started > 0
    /\ not_started' = not_started - 1
    /\ worker_pc' = [worker_pc EXCEPT ![t] = "rate_wait"]
    /\ UNCHANGED <<batch_size, pool_size, main_pc, lock_holder, futures_done,
                   futures_seen, has_entry, live_processed>>
    /\ UNCHANGED live_frame

\* line 61: with self.request_lock
LiveRateAcquire(t) ==
    /\ worker_pc[t] = "rate_wait"
    /\ Acquirable(lock_holder["request_lock"])
    /\ lock_holder' = [lock_holder EXCEPT !["request_lock"] = t]
    /\ worker_pc' = [worker_pc EXCEPT ![t] = "rate_held"]
    /\ UNCHANGED <<batch_size, pool_size, main_pc, not_started, futures_done,
                   futures_seen, has_entry, live_processed>>
    /\ UNCHANGED live_frame

\* lines 65-70: a thread with an entry that comes too early sleeps, holding
\* the lock
LiveRateSleep(t) ==
    /\ worker_pc[t] = "rate_held"
    /\ t \in has_entry
    /\ worker_pc' = [worker_pc EXCEPT ![t] = "sleeping"]
    /\ UNCHANGED <<batch_size, pool_size, main_pc, lock_holder, not_started,
                   futures_done, futures_seen, has_entry, live_processed>>
    /\ UNCHANGED live_frame

\* line 72 and the end of the with block: the entry is written and the lock
\* released; the thread goes on to lines 113-119
LiveRateRelease(t) ==
    /\ worker_pc[t] \in { "rate_held", "sleeping" }
    /\ has_entry' = has_entry \cup {t}
    /\ lock_holder' = [lock_holder EXCEPT !["request_lock"] = NoThread]
    /\ worker_pc' = [worker_pc EXCEPT ![t] = "searching"]
    /\ UNCHANGED <<batch_size, pool_size, main_pc, not_started, futures_done,
                   futures_seen, live_processed>>
    /\ UNCHANGED live_frame

\* lines 113-166 or 171-172: the search and the decision return, or one of
\* them raises; both ways lead to _update_stats (line 169 or 173)
LiveSearchEnds(t) ==
    /\ worker_pc[t] = "searching"
    /\ worker_pc' = [worker_pc EXCEPT ![t] = "stats_wait"]
    /\ UNCHANGED <<batch_size, pool_size, main_pc, lock_holder, not_started,
                   futures_done, futures_seen, has_entry, live_processed>>
    /\ UNCHANGED live_frame

\* line 76: with self.stats_lock
LiveStatsAcquire(t) ==
    /\ worker_pc[t] = "stats_wait"
    /\ Acquirable(lock_holder["stats_lock"])
    /\ lock_holder' = [lock_holder EXCEPT !["stats_lock"] = t]
    /\ worker_pc' = [worker_pc EXCEPT ![t] = "stats_held"]
    /\ UNCHANGED <<batch_size, pool_size, main_pc, not_started, futures_done,
                   futures_seen, has_entry, live_processed>>
    /\ UNCHANGED live_frame

\* lines 77-83 and 176: the counters, the release, the result returned: the
\* future is finished
LiveStatsRelease(t) ==
    /\ worker_pc[t] = "stats_held"
    /\ live_processed' = live_processed + 1
    /\ lock_holder' = [lock_holder EXCEPT !["stats_lock"] = NoThread]
    /\ futures_done' = futures_done + 1
    /\ worker_pc' = [worker_pc EXCEPT ![t] = "idle"]
    /\ UNCHANGED <<batch_size, pool_size, main_pc, not_started, futures_seen,
                   has_entry>>
    /\ UNCHANGED live_frame

\* lines 203-210: as_completed yields a finished future; line 209 decides
\* whether _print_progress is called
LiveCollect ==
    /\ main_pc = "as_completed"
    /\ futures_done > 0
    /\ futures_done' = futures_done - 1
    /\ futures_seen' = futures_seen + 1
    /\ main_pc' = IF futures_seen' % 10 = 0 \/ futures_seen' = batch_size
                  THEN "progress_wait" ELSE main_pc
    /\ UNCHANGED <<batch_size, pool_size, worker_pc, lock_holder, not_started,
                   has_entry, live_processed>>
    /\ UNCHANGED live_frame

\* line 237: with self.stats_lock, in _print_progress
LiveProgressAcquire ==
    /\ main_pc = "progress_wait"
    /\ Acquirable(lock_holder["stats_lock"])
    /\ lock_holder' = [lock_holder EXCEPT !["stats_lock"] = MainThread]
    /\ main_pc' = "progress_held"
    /\ UNCHANGED <<batch_size, pool_size, worker_pc, not_started, futures_done,
                   futures_seen, has_entry, live_processed>>
    /\ UNCHANGED live_frame

\* lines 238-246: the line is printed and the lock released
LiveProgressRelease ==
    /\ main_pc = "progress_held"
    /\ lock_holder' = [lock_holder EXCEPT !["stats_lock"] = NoThread]
    /\ main_pc' = "as_completed"
    /\ UNCHANGED <<batch_size, pool_size, worker_pc, not_started, futures_done,
                   futures_seen, has_entry, live_processed>>
    /\ UNCHANGED live_frame

\* as_completed is exhausted, the with block of line 195 ends, line 228
\* sorts and line 231 calls _print_final_stats
LiveSort ==
    /\ main_pc = "as_completed"
    /\ futures_seen = batch_size
    /\ main_pc' = "final_wait"
    /\ UNCHANGED <<batch_size, pool_size, worker_pc, lock_holder, not_started,
                   futures_done, futures_seen, has_entry, live_processed>>
    /\ UNCHANGED live_frame

\* line 250: with self.stats_lock, in _print_final_stats
LiveFinalAcquire ==
    /\ main_pc = "final_wait"
    /\ Acquirable(lock_holder["stats_lock"])
    /\ lock_holder' = [lock_holder EXCEPT !["stats_lock"] = MainThread]
    /\ main_pc' = "final_held"
    /\ UNCHANGED <<batch_size, pool_size, worker_pc, not_started, futures_done,
                   futures_seen, has_entry, live_processed>>
    /\ UNCHANGED live_frame

\* lines 251-264 and 233: the statistics are printed, line 260 dividing by
\* total_processed; the lock is released on both ways out of the with block
LiveFinalRelease ==
    /\ main_pc = "final_held"
    /\ lock_holder' = [lock_holder EXCEPT !["stats_lock"] = NoThread]
    /\ main_pc' = IF live_processed = 0 THEN "raised" ELSE "returned"
    /\ UNCHANGED <<batch_size, pool_size, worker_pc, not_started, futures_done,
                   futures_seen, has_entry, live_processed>>
    /\ UNCHANGED live_frame

LiveSetup ==
    LiveInit /\ ModelIdle /\ CrawlerIdle /\ StatsIdle /\ DedupIdle /\ ExtractIdle
        /\ ScoreIdle /\ RelevantIdle /\ PassIdle /\ SearchIdle

WorkerStep(t) ==
    \/ LiveTake(t)
    \/ LiveRateAcquire(t)
    \/ LiveRateSleep(t)
    \/ LiveRateRelease(t)
    \/ LiveSearchEnds(t)
    \/ LiveStatsAcquire(t)
    \/ LiveStatsRelease(t)

MainStep ==
    \/ LiveSubmit
    \/ LiveCollect
    \/ LiveProgressAcquire
    \/ LiveProgressRelease
    \/ LiveSort
    \/ LiveFinalAcquire
    \/ LiveFinalRelease

LiveNext ==
    \/ LiveSubmit
    \/ \E t \in PoolWorkers : LiveTake(t)
    \/ \E t \in PoolWorkers : LiveRateAcquire(t)
    \/ \E t \in PoolWorkers : LiveRateSleep(t)
    \/ \E t \in PoolWorkers : LiveRateRelease(t)
    \/ \E t \in PoolWorkers : LiveSearchEnds(t)
    \/ \E t \in PoolWorkers : LiveStatsAcquire(t)
    \/ \E t \in PoolWorkers : LiveStatsRelease(t)
    \/ LiveCollect
    \/ LiveProgressAcquire
    \/ LiveProgressRelease
    \/ LiveSort
    \/ LiveFinalAcquire
    \/ LiveFinalRelease

SpecLive == LiveSetup /\ [][LiveNext]_vars

\* the scheduling: the operating system runs every runnable thread, a
\* sleep of line 70 ends and a search returns or raises
FairLive ==
    /\ SpecLive
    /\ WF_vars(MainStep)
    /\ \A t \in 1..MaxWorkers : WF_vars(t \in PoolWorkers /\ WorkerStep(t))

-----------------------------------------------------------------------------
(* Properties of process_batch and of the relevance pass, under Spec        *)

\* process_batch has returned its list
Returned == pc \in {"returned", "relevance", "save", "final"}

\* C1: when process_batch returns, the list has the length of its input and
\* its i-th result carries the row_index, original_model and
\* excel_energy_level of the i-th input query, whatever the number of workers
\* and the order in which the workers finished.
C1_OutputOrderIsInputOrder ==
    Returned =>
        /\ Len(results) = Len(products_data)
        /\ \A i \in 1..Len(results) :
               /\ res[results[i]].row_index = products_data[i].row_index
               /\ res[results[i]].original_model = products_data[i].original_model
               /\ res[results[i]].excel_energy_level
                      = products_data[i].excel_energy_level

\* C1 witness: a batch of three queries has returned with more than one
\* worker, the futures having completed in another order than submitted.
C1_Witness ==
    /\ pc = "returned"
    /\ max_workers > 1
    /\ Len(results) = 3
    /\ out_of_order

\* C2: when process_batch returns, every submitted query has exactly one
\* result in the list, whatever the searches did.
C2_ExactlyOneResultPerQuery ==
    Returned =>
        \A k \in Queries :
            Cardinality({i \in 1..Len(results) :
                            res[results[i]].row_index = products_data[k].row_index}) = 1

\* C2 witness: a batch of at least two queries has returned and every one of
\* its searches failed or raised.
C2_Witness ==
    /\ pc = "returned"
    /\ Len(products_data) >= 2
    /\ \A k \in Queries : fault[k] \in {"search failed", "search raised"}
    /\ \E k \in Queries : fault[k] = "search failed"
    /\ \E k \in Queries : fault[k] = "search raised"

\* C3: the step in which the search of a query fails or raises, or a later
\* stage of its pipeline raises, ends the query with verdict NotFound and a
\* non-empty detail, leaves every other query as it was and does not end the
\* batch; and the result of a failed query stays NotFound with a detail.
C3_FailureIsolation ==
    [][\A k \in Queries :
          /\ (fault'[k] # "none" =>
                 /\ res'[k].validation_result = NotFound
                 /\ res'[k].details # ""
                 /\ st'[k] = "done")
          /\ (fault[k] = "none" /\ fault'[k] # "none" =>
                 /\ pc' = pc
                 /\ \A j \in Queries \ {k} :
                        res'[j] = res[j] /\ st'[j] = st[j] /\ fault'[j] = fault[j])
      ]_vars

\* C3 witness: in a returned batch one query failed in its search, one had a
\* pipeline stage raise, and a third one was decided Correct.
C3_Witness ==
    /\ pc = "returned"
    /\ \E k \in Queries : fault[k] = "stage raised" /\ res[k].search_success
    /\ \E k \in Queries : fault[k] = "search failed"
    /\ \E k \in Queries : fault[k] = "none" /\ res[k].validation_result = Correct

\* C4: process_batch returns for every input list, the empty one included:
\* the call never ends by raising.
C4_BatchNeverRaises == pc # "raised"

\* C7: the result of a query whose worker has returned is changed by no step
\* but the downgrade of the relevance pass, which takes an Incorrect verdict
\* to NotFound; so a verdict changes at most once, and Correct, NotFound and
\* DeclaredMissing results stay as they are, detail included.
C7_VerdictOnlyDowngraded ==
    [][\A k \in Queries :
          st[k] = "done" =>
              \/ res'[k] = res[k]
              \/ /\ pc = "relevance"
                 /\ res[k].validation_result = Incorrect
                 /\ res'[k].validation_result = NotFound
      ]_vars

\* C7 witness: at the end of a run one Incorrect result has been downgraded
\* to NotFound, one was kept Incorrect, and a DeclaredMissing one was passed.
C7_Witness ==
    /\ pc = "final"
    /\ \E k \in rel_checked : res[k].validation_result = NotFound
    /\ \E k \in rel_checked : res[k].validation_result = Incorrect
    /\ \E k \in Queries : res[k].validation_result = DeclaredMissing

\* the stage of a query in the words of the design: a query whose worker
\* returned without a matched model (failed search, no energy level, an
\* exception) is Final at once; a decided one is Final when the relevance
\* pass is over
Stage(k) ==
    CASE st[k] = "pending" -> "Pending"
      [] st[k] = "searching" -> "Searching"
      [] st[k] = "scoring" -> "Scoring"
      [] OTHER ->
            IF res[k].matched_model = "absent" \/ pc \in {"save", "final"}
            THEN "Final"
            ELSE IF k \in rel_checked THEN "Revalidated"
            ELSE "Decided"

\* the transitions of the chain Pending -> ... -> Final
ChainTransitions ==
    { <<"Pending", "Searching">>, <<"Searching", "Scoring">>,
      <<"Scoring", "Decided">>, <<"Decided", "Revalidated">>,
      <<"Decided", "Final">>, <<"Revalidated", "Final">> }

\* the transitions of a query that fails on the way
FailureTransitions == { <<"Searching", "Final">>, <<"Scoring", "Final">> }

\* C8 as stated: a query only moves along the chain Pending -> Searching ->
\* Scoring -> Decided -> (Revalidated) -> Final, and enters Revalidated only
\* from Decided with verdict Incorrect.
C8_ChainOnly ==
    [][\A k \in Queries :
          \/ Stage(k)' = Stage(k)
          \/ /\ <<Stage(k), Stage(k)'>> \in ChainTransitions
             /\ Stage(k)' = "Revalidated" => res[k].validation_result = Incorrect
      ]_vars

\* C8 amended: a query moves along the chain, or from Searching or Scoring
\* straight to Final with verdict NotFound when its search fails, yields no
\* energy level or a stage raises; it enters Revalidated only from Decided
\* with verdict Incorrect.
C8_ChainOrFailure ==
    [][\A k \in Queries :
          \/ Stage(k)' = Stage(k)
          \/ /\ <<Stage(k), Stage(k)'>> \in ChainTransitions
             /\ Stage(k)' = "Revalidated" => res[k].validation_result = Incorrect
          \/ /\ <<Stage(k), Stage(k)'>> \in FailureTransitions
             /\ res'[k].validation_result = NotFound
      ]_vars

\* C8 witness: at the end of a run one query went through Revalidated and
\* another one failed in its search.
C8_Witness ==
    /\ pc = "final"
    /\ \E k \in Queries : Stage(k) = "Final" /\ k \in rel_checked
    /\ \E k \in Queries : Stage(k) = "Final" /\ fault[k] = "search failed"

-----------------------------------------------------------------------------
(* Properties of compare_energy_levels, under SpecCompare                   *)

\* C5: the verdict follows the decision table: NotFound when the candidate
\* grade normalizes to none, DeclaredMissing when only the declared one does,
\* Correct when both normalize to the same grade, Incorrect otherwise.
C5_DecisionTable ==
    cmp_pc = "compared" =>
        LET declared == normalize_energy_level(excel_level)
            candidate == normalize_energy_level(search_level)
        IN  /\ candidate = PyNone => verdict = NotFound
            /\ candidate # PyNone /\ declared = PyNone => verdict = DeclaredMissing
            /\ candidate # PyNone /\ declared # PyNone /\ declared = candidate
                   => verdict = Correct
            /\ candidate # PyNone /\ declared # PyNone /\ declared # candidate
                   => verdict = Incorrect

\* C5 witness: a comparison in which neither grade normalizes, the declared
\* text not being empty, gave NotFound.
C5_Witness ==
    /\ cmp_pc = "compared"
    /\ excel_level = <<"x">>
    /\ search_level = <<"wei", "zhi">>
    /\ verdict = NotFound

\* the forms of grade g (1..5)
GradeDigit(g) == <<"1", "2", "3", "4", "5">>[g]
GradeNumeral(g) == <<"yi", "er", "san", "si", "wu">>[g]
RomanForm(g) ==
    <<  <<"I">>, <<"I", "I">>, <<"I", "I", "I">>, <<"I", "V">>, <<"V">>  >>[g]
GradeToken(g) == <<GradeNumeral(g), "ji">>
GradeForms(g) ==
    { <<GradeDigit(g)>>, GradeToken(g), <<GradeDigit(g), "ji">>, RomanForm(g) }
AllGradeForms == UNION { GradeForms(g) : g \in 1..5 }

\* a text without its blanks and punctuation, None taken as empty
Cleaned(text) ==
    IF text = PyNone THEN <<>>
    ELSE SelectSeq(text, LAMBDA c : c \notin {" ", "-", "/", "."})

\* what C6 says of one text and its normalization, `known` being the texts
\* that denote a grade
NormalizesAsClaimed(text, normalized, known) ==
    /\ \A g \in 1..5 : text \in GradeForms(g) => normalized = GradeToken(g)
    /\ text \notin known => normalized = PyNone

\* what C6 says of the verdict
ComparesAsClaimed ==
    /\ \A g, h \in 1..5 :
           excel_level \in GradeForms(g) /\ search_level \in GradeForms(h)
               => verdict = (IF g = h THEN Correct ELSE Incorrect)
    /\ \A h \in 1..5 :
           excel_level = <<>> /\ search_level \in GradeForms(h)
               => verdict = DeclaredMissing

\* C6 as stated: the four forms of a grade normalize to its token, a text
\* that is not one of the forms of the table normalizes to none, and grades
\* written in different forms compare Correct exactly when they are the same.
C6_UnlistedTextIsNone ==
    cmp_pc = "compared" =>
        /\ NormalizesAsClaimed(excel_level, normalized_excel, AllGradeForms)
        /\ NormalizesAsClaimed(search_level, normalized_search, AllGradeForms)
        /\ ComparesAsClaimed

\* C6 amended: the four forms of a grade normalize to its token, a text whose
\* cleaned form (blanks and punctuation removed) is not one of the forms of
\* the table normalizes to none, and grades written in different forms
\* compare Correct exactly when they are the same.
C6_UncleanableTextIsNone ==
    cmp_pc = "compared" =>
        /\ NormalizesAsClaimed(excel_level, normalized_excel,
                               {t \in LevelTexts : Cleaned(t) \in AllGradeForms})
        /\ NormalizesAsClaimed(search_level, normalized_search,
                               {t \in LevelTexts : Cleaned(t) \in AllGradeForms})
        /\ ComparesAsClaimed

\* C6 witness: declared '三级' against the Roman numeral 'V' gave Incorrect.
C6_Witness ==
    /\ cmp_pc = "compared"
    /\ excel_level = SanJi
    /\ search_level = <<"V">>
    /\ normalized_search = WuJi
    /\ verdict = Incorrect

-----------------------------------------------------------------------------
(* Properties of the rate limiter, under SpecRate                           *)

C10_PassWhileOtherSleeps ==
    \A t1, t2 \in ThreadIds :
        (/\ t1 # t2
         /\ tpc[t1] = "sleeping"
         /\ tpc[t2] = "at lock"
         /\ \/ last_request_time[t2] = NoTime
            \/ now - last_request_time[t2] >= request_interval)
        => ENABLED RateLimitEnter(t2)

-----------------------------------------------------------------------------
(* Properties of _get_crawler_for_thread, under SpecCrawler                 *)

\* C11: every thread searches with one handle only, the only one constructed
\* for it, and no handle is used by two threads.
C11_OneHandlePerThread ==
    /\ \A t \in ThreadIds : Cardinality(used[t]) <= 1
    /\ created <= MaxThreads
    /\ \A t, u \in ThreadIds : t # u => used[t] \cap used[u] = {}

-----------------------------------------------------------------------------
(* Properties of _update_stats, under SpecStats                             *)

\* every query of the batch has been processed and counted
AllCounted == unfinished = 0 /\ \A t \in ThreadIds : spc[t] = "idle"

\* C12: whenever the stats mutex is free, total_processed is the sum of
\* successful and failed, and once every query of a batch of N on a fresh
\* processor has been processed, total_processed is N.
C12_NoLostUpdate ==
    /\ stats_lock = NoThread =>
           self_stats.total_processed = self_stats.successful + self_stats.failed
    /\ AllCounted => self_stats.total_processed = submitted

\* C12 witness: a batch of MaxTasks queries is done, with successes and
\* failures counted.
C12_Witness ==
    /\ AllCounted
    /\ submitted = MaxTasks
    /\ self_stats.successful >= 1
    /\ self_stats.failed >= 2

-----------------------------------------------------------------------------
(* Properties of the cancellation of a batch, under SpecCancel              *)

\* C13: once the batch has been interrupted, no query that has not been
\* started is started, and no result list is emitted: the results of the
\* queries are all returned or none is.
C13_NoStartAfterInterrupt ==
    [][/\ pc = "interrupted" =>
              \A k \in Queries : st[k] = "pending" => st'[k] = "pending"
       /\ pc' \in {"interrupted", "cancelled"} => results' = <<>>
      ]_vars

-----------------------------------------------------------------------------
(* Properties of the deduplication, under SpecDedup                         *)

\* the records of `list` whose model is m
OfModel(list, m) == { i \in 1..Len(list) : list[i].model = m }

\* C14: the deduplicated list holds exactly one record for each model of the
\* raw list, and no more records than the raw list.
C14_OneRecordPerRawModel ==
    dedup_pc = "extracted" =>
        /\ \A i \in 1..Len(raw_list) :
               Cardinality(OfModel(filtered_records, raw_list[i].productModel)) = 1
        /\ Len(filtered_records) <= Len(raw_list)

\* the records of the raw list that have a level and the model m, as
\* <<level, time>> in the order of the list
GroupOf(m) ==
    LET members == SelectSeq(raw_list,
                             LAMBDA r : r.productModel = m /\ r.nxLever # <<>>)
    IN  [j \in 1..Len(members) |->
            [energy_level |-> level_map_get(members[j].nxLever),
             announcement_time |-> members[j].announcementTime]]

\* C15: the record kept for a model is the member of its group with the
\* lexicographically greatest announcement_time, the first one of those that
\* have it; a member with an empty time is kept only if all are empty.
C15_LatestFirstKept ==
    dedup_pc = "extracted" =>
        \A i \in 1..Len(filtered_records) :
            LET kept == filtered_records[i]
                group == GroupOf(kept.model)
            IN  \E j \in 1..Len(group) :
                    /\ group[j].energy_level = kept.energy_level
                    /\ group[j].announcement_time = kept.announcement_time
                    /\ \A h \in 1..Len(group) :
                           ~TextLess(kept.announcement_time,
                                     group[h].announcement_time)
                    /\ \A h \in 1..(j - 1) :
                           group[h].announcement_time # kept.announcement_time
                    /\ kept.announcement_time = <<>> =>
                           \A h \in 1..Len(group) :
                               group[h].announcement_time = <<>>

\* C15 witness: of three records of one model, the first with an empty time
\* and the two others with the same greatest time, the second one is kept.
C15_Witness ==
    /\ dedup_pc = "extracted"
    /\ raw_list = << Raw("KFR-35GW", <<"1">>, <<>>),
                     Raw("KFR-35GW", <<"2">>, <<"2", "1">>),
                     Raw("KFR-35GW", <<"1">>, <<"2", "1">>) >>
    /\ filtered_records = << [model |-> "KFR-35GW", energy_level |-> ErJi,
                           announcement_time |-> <<"2", "1">>] >>

-----------------------------------------------------------------------------
(* Properties of extract_model, under SpecExtract                           *)

\* `part` is a run of consecutive characters of `text`
IsSliceOf(part, text) ==
    \E i \in 1..(Len(text) + 1) :
        /\ i + Len(part) - 1 <= Len(text)
        /\ SubSeq(text, i, i + Len(part) - 1) = part

\* the text is empty or made of whitespace only
IsBlank(text) == \A i \in 1..Len(text) : text[i] = " "

\* C20: extract_model returns a text for every input, a piece of the input
\* text, and the empty text when the input is empty, whitespace only or None.
C20_ExtractModelTotal ==
    extract_pc = "returned" =>
        /\ canonical_model \in Seq(STRING)
        /\ raw_model # PyNone => IsSliceOf(canonical_model, raw_model)
        /\ raw_model = PyNone \/ IsBlank(raw_model) => canonical_model = <<>>

\* C20 witness: a text of blanks only gave the empty text.
C20_Witness ==
    /\ extract_pc = "returned"
    /\ raw_model = <<" ", " ", " ">>
    /\ canonical_model = <<>>

-----------------------------------------------------------------------------
(* Properties of score_match, find_best_match and the decision, under       *)
(* SpecScore                                                                *)

\* the score_match calls have returned
Scored == score_pc \in {"scored", "ranked", "decided"}

\* find_best_match has returned
Ranked == score_pc \in {"ranked", "decided"}

\* C16: every score that score_match returns lies between 0 and 100, however
\* many bonuses apply at once.
C16_ScoreInRange ==
    Scored =>
        \A i \in 1..Len(candidates) :
            /\ candidate_scores[i][2] > 0
            /\ candidate_scores[i][1] >= 0
            /\ candidate_scores[i][1] <= 100 * candidate_scores[i][2]

\* C16 witness: a candidate that is neither the original nor the extracted
\* model, whose similarity and bonuses sum to more than 100, scored 100.
C16_Witness ==
    /\ Scored
    /\ \E i \in 1..Len(candidates) :
           /\ candidates[i].model # query_model
           /\ candidates[i].model # query_extracted
           /\ LET similarity == calculate_similarity_score(query_model,
                                                           candidates[i].model)
              IN  90 * similarity[1]
                      + (BrandBonus(query_model, candidates[i])
                             + OtherBonuses(query_model, query_extracted,
                                            candidates[i])) * similarity[2]
                  > 100 * similarity[2]
           /\ candidate_scores[i] = <<100, 1>>

\* C17: a candidate whose model is the original identifier scores exactly
\* 100; one whose model is not the original but is the extracted model
\* scores exactly 95; the candidate 'KFR-35GW/X' of producer GeLi scores at
\* least 95 for the original GeLi + 'KFR-35GW/X'.
C17_ExactMatchScores ==
    Scored =>
        \A i \in 1..Len(candidates) :
            /\ candidates[i].model = query_model =>
                   candidate_scores[i] = <<100, 1>>
            /\ candidates[i].model # query_model
                   /\ candidates[i].model = query_extracted =>
                   candidate_scores[i] = <<95, 1>>
            /\ query_model = GeLi \o KFR35GWX
                   /\ candidates[i].model = KFR35GWX
                   /\ candidates[i].producer = GeLi =>
                   ~RatLess(candidate_scores[i], <<95, 1>>)

\* C17 witness: for the original GeLi + 'KFR-35GW/X' with the extracted model
\* 'KFR-35GW/X', the candidate of the extracted model scored 95 and the
\* candidate of the original model scored 100.
C17_Witness ==
    /\ Scored
    /\ query_model = GeLi \o KFR35GWX
    /\ query_extracted = KFR35GWX
    /\ Len(candidates) = 2
    /\ candidates[1].model = KFR35GWX
    /\ candidates[1].producer = GeLi
    /\ candidate_scores[1] = <<95, 1>>
    /\ candidates[2].model = query_model
    /\ candidate_scores[2] = <<100, 1>>

\* C18: find_best_match returns a candidate of the highest score_match score,
\* and of several candidates of that score the first of the list.
C18_FirstOfHighestScore ==
    Ranked =>
        \E i \in 1..Len(candidates) :
            /\ ranking.best_match = candidates[i]
            /\ \A j \in 1..Len(candidates) :
                   ~RatLess(candidate_scores[i], candidate_scores[j])
            /\ \A j \in 1..(i - 1) :
                   RatLess(candidate_scores[j], candidate_scores[i])

\* C18 witness: two different candidates of the same score, computed by
\* find_best_match, and the first of them returned.
C18_Witness ==
    /\ Ranked
    /\ Len(candidates) = 2
    /\ candidates[1] # candidates[2]
    /\ RatEq(candidate_scores[1], candidate_scores[2])
    /\ ranking.best_score = candidate_scores[1]
    /\ ranking.best_match = candidates[1]

\* the four texts of lines 153-160: the verdict's words with the matched
\* model and the levels, nothing about the score
DetailTexts ==
    { DetailsFor(v) : v \in {Correct, Incorrect, DeclaredMissing, NotFound} }

\* C19: when the best score is below 30 the candidate is still returned, the
\* verdict is decided as usual, and the detail of the result flags the low
\* confidence: it is not one of the texts a confident match gets.
C19_LowScoreFlaggedInDetail ==
    score_pc = "decided" /\ ranking.warned =>
        /\ ranking.best_match \in { candidates[i] : i \in 1..Len(candidates) }
        /\ query_result.validation_result =
               compare_energy_levels(query_level, ranking.best_match.energy_level)
        /\ query_result.details \notin DetailTexts

\* the text is made of Chinese characters only, and of one at least
AllChinese(text) ==
    /\ text # PyNone
    /\ text # <<>>
    /\ \A i \in 1..Len(text) : is_chinese(text[i])

\* C21: extract_model returns a text made of Chinese characters only as it
\* is, a brand name or a text beginning with a brand name included.
C21_ChineseTextUnchanged ==
    extract_pc = "returned" /\ AllChinese(raw_model) =>
        canonical_model = raw_model

\* extract_model hands the text to _extract_generic: it is a text that is not
\* blank, has no version suffix and starts with no brand and not with RF
GenericRule(text) ==
    /\ text # PyNone
    /\ strip(text) # <<>>
    /\ ~_has_version_suffix(strip(text))
    /\ ~startswith(strip(text), GeLi)
    /\ ~startswith(strip(text), MeiDiKongTiao)
    /\ FirstBrandPrefix(strip(text), common_brands) = <<>>
    /\ ~startswith(strip(text), <<"R", "F">>)

\* C22: for a text that the generic rule handles, extract_model of the
\* result of extract_model is that result again.
C22_GenericRuleIdempotent ==
    extract_pc = "returned" /\ GenericRule(raw_model) =>
        extract_model(canonical_model) = canonical_model

-----------------------------------------------------------------------------
(* Properties of is_relevant_match, under SpecRelevant                      *)

\* what is left of is_relevant_match for the pair once the categories have
\* decided nothing
RestOfChecks ==
    AfterCategoryCheck(checked_pair.original_model, checked_pair.matched_model,
                       checked_pair.original_producer, checked_pair.matched_producer)

\* the categories of the two models are known and differ
CategoriesDecide ==
    /\ extract_product_category(checked_pair.original_model) # Unknown
    /\ extract_product_category(checked_pair.matched_model) # Unknown
    /\ extract_product_category(checked_pair.original_model)
           # extract_product_category(checked_pair.matched_model)

\* C24: is_relevant_match is false when both models have a known category
\* and the categories differ, whatever the brands, producers and similarity;
\* when a category is unknown the result is that of the other checks alone.
C24_CategoryMismatchIsIrrelevant ==
    relevant_pc = "returned" =>
        /\ CategoriesDecide => is_relevant = FALSE
        /\ \/ extract_product_category(checked_pair.original_model) = Unknown
           \/ extract_product_category(checked_pair.matched_model) = Unknown
           => is_relevant = RestOfChecks

\* C24 witness: two models of the same brand and the same producer that pass
\* every other check, one an air conditioner and one a refrigerator, are
\* not relevant.
C24_Witness ==
    /\ relevant_pc = "returned"
    /\ CategoriesDecide
    /\ extract_brand_info(checked_pair.original_model)
           = extract_brand_info(checked_pair.matched_model)
    /\ checked_pair.original_producer = GeLi
    /\ checked_pair.matched_producer = GeLi
    /\ RestOfChecks
    /\ is_relevant = FALSE

\* more than half of the characters of the model are Chinese, counted among
\* all its characters or among those left without blanks and punctuation,
\* and the model has a digit
ChineseHeavyWithDigit(model) ==
    /\ \E i \in 1..Len(model) : model[i] \in Digits
    /\ \/ 2 * Len(SelectSeq(model, is_chinese)) > Len(model)
       \/ 2 * Len(SelectSeq(model, is_chinese)) > Len(SelectSeq(model, IsWordOrCjk))

\* C25: when the categories decide nothing and the original model is mostly
\* Chinese with a digit, the match is relevant exactly when the similarity
\* of the Chinese parts is at least 0.3; brands, producers and the
\* similarity of the whole models play no part.
C25_ChineseHeavyDecidedByChinesePart ==
    relevant_pc = "returned" /\ ~CategoriesDecide
        /\ ChineseHeavyWithDigit(checked_pair.original_model) =>
        is_relevant =
            ~RatLess(calculate_text_similarity(
                         extract_chinese_part(checked_pair.original_model),
                         extract_chinese_part(checked_pair.matched_model)),
                     <<3, 10>>)

\* C25 witness: a mostly Chinese original with a digit whose match has
\* another brand, which the checks of the brands would reject, is relevant
\* by its Chinese part.
C25_Witness ==
    /\ relevant_pc = "returned"
    /\ ~CategoriesDecide
    /\ ChineseHeavyWithDigit(checked_pair.original_model)
    /\ ~GeneralChecks(checked_pair.original_model, checked_pair.matched_model,
                      checked_pair.original_producer, checked_pair.matched_producer)
    /\ is_relevant = TRUE

-----------------------------------------------------------------------------
(* Properties of _perform_relevance_check, under SpecPass                   *)

\* C23: after the pass every result that was decided Incorrect has verdict
\* NotFound and the replaced detail when is_relevant_match of its original
\* and matched model is false, and is as it was decided when it is true.
C23_IncorrectDowngradedIffIrrelevant ==
    pass_pc = "done" =>
        \A i \in 1..Len(pass_decided) :
            /\ pass_decided[i].validation_result = Incorrect
            /\ pass_decided[i].matched_model # PyNone
            => pass_results[i] =
                   IF is_relevant_match(pass_decided[i].original_model,
                                        pass_decided[i].matched_model, <<>>, <<>>)
                   THEN pass_decided[i]
                   ELSE Downgrade(pass_decided[i])

-----------------------------------------------------------------------------
(* Properties of search_product, under SpecSearch                           *)

SearchReturned == search_return \in { "data", "None" }

\* search_product sends at most max_retries requests and returns the data
\* exactly when its last request met a success.
SearchBounded ==
    /\ Len(responses) <= max_retries
    /\ search_return = "data" =>
           responses # <<>> /\ responses[Len(responses)] = "success"

\* C26: search_product sends at most max_retries requests, returns the
\* result data or None, and an error answer of the API that is neither an
\* authentication nor a rate-limit error is the last request of the call,
\* which returns None.
C26_BoundedAndOtherApiErrorEnds ==
    /\ SearchBounded
    /\ \A i \in 1..Len(responses) :
           responses[i] \in ApiErrors \ { "auth_error", "limit_error" }
           => i = Len(responses) /\ search_return = "None"

-----------------------------------------------------------------------------
(* Properties of the threads of process_batch, under SpecLive and FairLive  *)

\* no thread holds request_lock and stats_lock at the same time
NoThreadHoldsBothLocks ==
    \A t \in PoolWorkers \cup {MainThread} : Cardinality(HeldBy(t)) <= 1

\* every lock is free again once its holder has left the with block
LocksReleased ==
    /\ lock_holder["request_lock"] # NoThread
           => worker_pc[lock_holder["request_lock"]] \in { "rate_held", "sleeping" }
    /\ lock_holder["stats_lock"] \in PoolWorkers
           => worker_pc[lock_holder["stats_lock"]] = "stats_held"
    /\ lock_holder["stats_lock"] = MainThread
           => main_pc \in { "progress_held", "final_held" }

\* process_batch ends, and on a batch that is not empty it returns
BatchEndsAndNonEmptyReturns ==
    <>(main_pc \in { "returned", "raised" } /\ (batch_size > 0 => main_pc = "returned"))

\* C27: when every search call returns, process_batch eventually returns.
C27_ProcessBatchEventuallyReturns ==
    <>(main_pc = "returned")

-----------------------------------------------------------------------------
(* Further properties of process_batch and of the relevance pass, under Spec *)

\* C28: in the list process_batch returns, a result whose search_success is
\* false has verdict NotFound; a result with verdict Correct, Incorrect or
\* DeclaredMissing has search_success true, a matched model and a found
\* grade; and the results with search_success true are as many as the
\* counter 'successful', the others as many as the counter 'failed'.
C28_ResultFieldsConsistent ==
    pc = "returned" =>
        /\ \A k \in Queries :
               ~res[k].search_success => res[k].validation_result = NotFound
        /\ \A k \in Queries :
               res[k].validation_result \in {Correct, Incorrect, DeclaredMissing}
               => /\ res[k].search_success
                  /\ res[k].matched_model # "absent"
                  /\ res[k].search_energy_level # Absent
        /\ Cardinality({k \in Queries : res[k].search_success}) = stats.successful
        /\ Cardinality({k \in Queries : ~res[k].search_success}) = stats.failed

\* C29: whenever the relevance pass has begun, every query of the batch has
\* its decided result, no worker is running, the list holds every result
\* sorted by row index, and the pass has examined only results before its
\* index; each step of the pass examines the result at its index and moves
\* the index on by one, or ends the pass.
C29_RelevanceIsSecondPass ==
    /\ [](pc = "relevance" \/ rel_i > 0 \/ rel_checked # {} =>
              /\ \A k \in Queries : st[k] = "done"
              /\ Running = {}
              /\ Len(results) = Len(products_data)
              /\ \A i, j \in 1..Len(results) :
                     i < j => res[results[i]].row_index < res[results[j]].row_index
              /\ rel_checked \subseteq
                     {results[i] : i \in {j \in 1..Len(results) : j <= rel_i}})
    /\ [][pc = "relevance" =>
              /\ rel_i' \in {rel_i, rel_i + 1}
              /\ rel_i' = rel_i => pc' = "save"
              /\ rel_checked' \ rel_checked \subseteq {results[rel_i]}
              /\ results' = results
         ]_vars

\* C29 witness: the pass has examined two results of a batch of three whose
\* workers finished out of order, on a pool of two workers.
C29_Witness ==
    /\ pc = "save"
    /\ max_workers > 1
    /\ Len(results) = 3
    /\ out_of_order
    /\ Cardinality(rel_checked) = 2

-----------------------------------------------------------------------------
(* Properties of close(), under SpecCrawler                                 *)

\* C30: once close() has run, every handle a worker constructed has been
\* closed.
C30_EveryCreatedHandleClosed ==
    close_ran => \A h \in 1..created : h \in closed

=============================================================================
